---------------------------- MODULE Spec2Model ----------------------------
(***************************************************************************)
(* Allotment engines of the admission system: the Gale-Shapley engine of   *)
(* bpharm_le.py and the first-fit engines of dnm.py, llm_allotment.py and  *)
(* pgm.py.  A text value (option code, category, flag) is a sequence of    *)
(* one-character strings, so that slicing, trimming and upper-casing are   *)
(* computed as the code computes them.                                     *)
(***************************************************************************)
EXTENDS Integers, Sequences, FiniteSets, TLC

VARIABLES
    engine,           \* which script runs: "ble", "dnm", "llm", "pgm" ("codec": none)
    pc,               \* position of the script
    phase,            \* selected phase (dnm: PHASE1..PHASE4, llm: 1..4; 0 otherwise)
    cand,             \* uploaded candidate table: RollNo -> row
    opts,             \* uploaded option table: RollNo -> rows in file order
    seats,            \* seat matrix, text columns cleaned in place: rows in file order
    prev_allot,       \* uploaded previous-phase allotment (rows), <<>> when none
    cand_sorted,      \* RollNo of the filtered, sorted candidate frame, in loop order
    idx,              \* number of candidates the loop has taken
    seat_map,         \* dnm / pgm: remaining count per seat key
    seat_cap,         \* ble: capacity per seat key; llm: remaining count per seat key
    allotments,       \* result rows (dnm, pgm: allotments; llm: results; ble: records)
    allotted,         \* llm: set of RollNo allotted so far
    conversion_log,   \* llm: conversions made by the second pass
    prefs,            \* ble: RollNo -> preference list of seat keys
    assignments,      \* ble: seat key -> list of RollNo
    next_prop_index,  \* ble: RollNo -> number of proposals made
    free_candidates,  \* ble: list of free RollNo
    roll,             \* ble: candidate popped from free_candidates (0: none)
    last_prop,        \* ble: the last proposal made and the occupant list around it
    codec,            \* codec run: selector, category, allot code and decoded fields
    rerun             \* ble: the first of two calls of stable_allocation (None: no second call)

vars == <<codec, rerun, engine, pc, phase, cand, opts, seats, prev_allot, cand_sorted, idx,
          seat_map, seat_cap, allotments, allotted, conversion_log, prefs,
          assignments, next_prop_index, free_candidates, roll, last_prop>>

(***************************************************************************)
(* Bounds of the model.                                                    *)
(***************************************************************************)
MaxSeat == 2      \* SEAT of one seat-matrix row is in 0..MaxSeat
MaxRank == 3      \* merit ranks are in 1..MaxRank

(***************************************************************************)
(* Text.                                                                   *)
(***************************************************************************)
None == <<>>

\* The lower-case letters the uploads of the model are written with.
LowerChars == {"a", "b", "c", "d", "e", "g", "h", "i", "k", "l", "m", "n", "o", "p",
               "q", "r", "s", "t", "u", "v", "w", "y"}

UpperOf == [a |-> "A", b |-> "B", c |-> "C", d |-> "D", e |-> "E", g |-> "G",
            h |-> "H", i |-> "I", k |-> "K", l |-> "L", m |-> "M", n |-> "N",
            o |-> "O", p |-> "P", q |-> "Q", r |-> "R", s |-> "S", t |-> "T",
            u |-> "U", v |-> "V", w |-> "W", y |-> "Y"]

\* c.upper() for one character.
UpperChar(c) == IF c \in LowerChars THEN UpperOf[c] ELSE c

RECURSIVE UpperEach(_)
UpperEach(s) == IF s = <<>> THEN <<>> ELSE <<UpperChar(Head(s))>> \o UpperEach(Tail(s))

\* s.upper()
Upper(s) == IF \A i \in 1..Len(s) : s[i] \notin LowerChars THEN s ELSE UpperEach(s)

RECURSIVE LStrip(_)
LStrip(s) == IF s # <<>> /\ Head(s) = " " THEN LStrip(Tail(s)) ELSE s

RECURSIVE RStrip(_)
RStrip(s) ==
    IF s # <<>> /\ s[Len(s)] = " " THEN RStrip(SubSeq(s, 1, Len(s) - 1)) ELSE s

Strip(s) == RStrip(LStrip(s))

\* s[a:b] of Python, 0-based, end exclusive, clipped to the length.
Slice(s, a, b) == SubSeq(s, a + 1, IF b < Len(s) THEN b ELSE Len(s))

\* s.split(sep) for a one-character separator.
RECURSIVE Split(_, _)
Split(s, sep) ==
    IF \A i \in 1..Len(s) : s[i] # sep THEN <<s>>
    ELSE LET i == CHOOSE j \in 1..Len(s) :
                      s[j] = sep /\ \A k \in 1..(j - 1) : s[k] # sep
         IN  <<SubSeq(s, 1, i - 1)>> \o Split(SubSeq(s, i + 1, Len(s)), sep)

Range(s) == {s[i] : i \in 1..Len(s)}

RECURSIVE SeqsOf(_)
\* Every arrangement of the finite set S as a list without repetition.
SeqsOf(S) ==
    IF S = {} THEN {<<>>}
    ELSE UNION {{<<x>> \o t : t \in SeqsOf(S \ {x})} : x \in S}

\* Category and flag codes used by the scripts.
SM == <<"S", "M">>
AM == <<"A", "M">>
SC == <<"S", "C">>
ST == <<"S", "T">>
OE == <<"O", "E">>
PD == <<"P", "D">>
CD == <<"C", "D">>
AC == <<"A", "C">>
MM == <<"M", "M">>
NR == <<"N", "R">>
NC == <<"N", "C">>
HQ == <<"H", "Q">>
MQ == <<"M", "Q">>
IQ == <<"I", "Q">>
EW == <<"E", "W">>
MU == <<"M", "U">>
NA == <<"N", "A">>
NAN == <<"N", "A", "N">>
NULL == <<"N", "U", "L", "L">>
Blank == <<>>
Y == <<"Y">>
N == <<"N">>
S == <<"S">>

\* The option codes of the model: two base seats, one code that is too short,
\* one written in lower case with a trailing blank.
OptA == <<"B", "G", "V", "L", "K", "K", "M">>
OptB == <<"B", "G", "V", "L", "T", "V", "M">>
OptShort == <<"B", "G", "V", "L">>
\* A code of a base seat that no seat matrix of the model has a row for.
OptNoSeat == <<"B", "G", "V", "L", "E", "K", "M">>
OptALower == <<"b", "g", "V", "L", "k", "k", "m", " ">>

\* A seat-matrix row.
SeatRow(g, t, col, crs, cat, n) ==
    [grp |-> g, typ |-> t, college |-> col, course |-> crs, category |-> cat,
     SEAT |-> n]

\* The seat matrices the model draws from: two base seats, three seat keys, one
\* category written in lower case with a trailing blank.
SeatMatrices ==
    {<<SeatRow(<<"B">>, <<"G">>, <<"K", "K", "M">>, <<"V", "L">>, SM, a),
       SeatRow(<<"B">>, <<"G">>, <<"K", "K", "M">>, <<"V", "L">>, SC, b),
       SeatRow(<<"B">>, <<"G">>, <<"T", "V", "M">>, <<"V", "L">>, <<"s", "m", " ">>, c)>>
        : a \in 0..MaxSeat, b \in 0..1, c \in 0..1}

\* The empty dict.
EmptyMap == [k \in {} |-> 0]

\* dict.get(key, 0)
Get(m, key) == IF key \in DOMAIN m THEN m[key] ELSE 0

\* m with m[key] = v (the key is created when missing).
Put(m, key, v) == [k \in DOMAIN m \cup {key} |-> IF k = key THEN v ELSE m[k]]

(***************************************************************************)
(* bpharm_le.py                                                            *)
(***************************************************************************)
\* .upper().strip() of a text column.
Norm(s) == Strip(Upper(s))

eligible_for_category(seat_cat0, cand_cat0) ==
    LET seat_cat == Norm(seat_cat0)
        c == Norm(cand_cat0)
        cand_cat == IF c \in {Blank, NULL, NA, NAN} THEN NA ELSE c
    IN  IF seat_cat = SM THEN TRUE
        ELSE IF cand_cat = NA THEN FALSE
        ELSE seat_cat = cand_cat

ble_decode_opt(opt0) ==
    LET opt == Norm(opt0)
    IN  IF Len(opt) < 7 THEN None
        ELSE [grp |-> Slice(opt, 0, 1), typ |-> Slice(opt, 1, 2),
              course |-> Slice(opt, 2, 4), college |-> Slice(opt, 4, 7),
              raw |-> opt]

ble_make_allot_code(grp, typ, course, college, category) ==
    LET cat2 == Slice(Norm(category), 0, 2)
    IN  grp \o typ \o course \o college \o cat2 \o cat2

\* The seat matrix with its five text columns upper-cased and trimmed.
CleanSeatRow(r) ==
    [grp |-> Norm(r.grp), typ |-> Norm(r.typ), college |-> Norm(r.college),
     course |-> Norm(r.course), category |-> Norm(r.category), SEAT |-> r.SEAT]

RECURSIVE CleanSeats(_)
CleanSeats(rows) ==
    IF rows = <<>> THEN <<>>
    ELSE <<CleanSeatRow(Head(rows))>> \o CleanSeats(Tail(rows))

\* full_key / key of a seat row: (grp, typ, college, course, category).
FullKey(r) == <<r.grp, r.typ, r.college, r.course, r.category>>
BaseKey(r) == <<r.grp, r.typ, r.college, r.course>>

RECURSIVE SumSeats(_, _)
\* seat_cap[full_key] = seat_cap.get(full_key, 0) + SEAT, over the rows.
SumSeats(rows, m) ==
    IF rows = <<>> THEN m
    ELSE SumSeats(Tail(rows),
                  Put(m, FullKey(Head(rows)),
                      Get(m, FullKey(Head(rows))) + Head(rows).SEAT))

base_to_cats(rows, base_key) ==
    {rows[i].category : i \in {j \in 1..Len(rows) : BaseKey(rows[j]) = base_key}}

RECURSIVE InsertByOPNO(_, _)
InsertByOPNO(sorted, r) ==
    IF sorted = <<>> THEN <<r>>
    ELSE IF r.OPNO < Head(sorted).OPNO THEN <<r>> \o sorted
    ELSE <<Head(sorted)>> \o InsertByOPNO(Tail(sorted), r)

RECURSIVE SortByOPNO(_)
\* Stable sort of option rows by OPNO.
SortByOPNO(rows) ==
    IF rows = <<>> THEN <<>>
    ELSE InsertByOPNO(SortByOPNO(SubSeq(rows, 1, Len(rows) - 1)), rows[Len(rows)])

ble_opt_usable(r) ==
    /\ r.RollNo > 0
    /\ r.OPNO > 0
    /\ Norm(r.ValidOption) = Y
    /\ Norm(r.Delflg) # Y

\* The cleaned option frame of one candidate, in preference order.
ble_clean_opts(rows) == SortByOPNO(SelectSeq(rows, ble_opt_usable))

ble_cand_kept(c) ==
    /\ c.BRank > 0
    /\ Norm(c.Status) # S
    /\ Norm(c.EligibleOptn) # N

cat_priority(cat, cand_cat) ==
    IF Upper(cat) = SM THEN 0
    ELSE IF Upper(cat) = cand_cat /\ Upper(cat) \notin {Blank, NA, NULL, NAN} THEN 1
    ELSE 2

\* cats_here after cats_here.sort(key=cat_priority).  Two categories share a
\* priority only at priority 2, and eligible_for_category refuses every
\* category of priority 2, so the order among them never reaches pref_list.
cats_sorted(cats, cand_cat) ==
    CHOOSE q \in SeqsOf(cats) :
        \A i, j \in 1..Len(q) :
            i < j => cat_priority(q[i], cand_cat) <= cat_priority(q[j], cand_cat)

RECURSIVE ble_add_cats_any_cap(_, _, _, _, _)
\* The loop "for sc in cats_here" without the test of the capacity.
ble_add_cats_any_cap(cats, dec, cand_cat, cap, pref_list) ==
    IF cats = <<>> THEN pref_list
    ELSE LET sc == Head(cats)
             full_key == <<dec.grp, dec.typ, dec.college, dec.course, sc>>
             skip == \/ full_key \in Range(pref_list)
                     \/ ~eligible_for_category(sc, cand_cat)
         IN  ble_add_cats_any_cap(Tail(cats), dec, cand_cat, cap,
                                  IF skip THEN pref_list ELSE Append(pref_list, full_key))

RECURSIVE ble_add_cats(_, _, _, _, _)
\* The loop "for sc in cats_here" of one option.
ble_add_cats(cats, dec, cand_cat, cap, pref_list) ==
    IF cats = <<>> THEN pref_list
    ELSE LET sc == Head(cats)
             full_key == <<dec.grp, dec.typ, dec.college, dec.course, sc>>
             skip == \/ full_key \in Range(pref_list)
                     \/ Get(cap, full_key) <= 0
                     \/ ~eligible_for_category(sc, cand_cat)
         IN  ble_add_cats(Tail(cats), dec, cand_cat, cap,
                          IF skip THEN pref_list ELSE Append(pref_list, full_key))

RECURSIVE ble_pref_list(_, _, _, _, _)
\* The loop "for op in opts_by_roll[roll]".
ble_pref_list(ops, cand_cat, rows, cap, pref_list) ==
    IF ops = <<>> THEN pref_list
    ELSE LET dec == ble_decode_opt(Head(ops).Optn)
             base_key == <<dec.grp, dec.typ, dec.college, dec.course>>
             here == IF dec = None THEN {} ELSE base_to_cats(rows, base_key)
         IN  ble_pref_list(Tail(ops), cand_cat, rows, cap,
                 IF dec = None \/ here = {} THEN pref_list
                 ELSE ble_add_cats(cats_sorted(here, cand_cat), dec, cand_cat,
                                   cap, pref_list))

\* seat_cap of build_preferences(cand_df, opts_df, seats_df).
build_seat_cap(seats_df) == SumSeats(CleanSeats(seats_df), EmptyMap)

\* pref_list of candidate row c with the cleaned option rows ops.
build_pref(c, ops, rows, cap) == ble_pref_list(ops, Norm(c.Category), rows, cap, <<>>)

\* prefs of build_preferences: the candidates of cand_df, in its order, whose
\* pref_list is not empty.
build_preferences(cand_df, order, opts_df, seats_df) ==
    LET rows == CleanSeats(seats_df)
        cap == SumSeats(rows, EmptyMap)
        pf == [r \in Range(order) |->
                  build_pref(cand_df[r], ble_clean_opts(opts_df[r]), rows, cap)]
    IN  [r \in {x \in Range(order) : pf[x] # <<>>} |-> pf[r]]

\* rank.get(r, 10**9)
ble_rank(r) == IF r \in DOMAIN cand THEN cand[r].BRank ELSE 1000000000

\* worst_candidate written with min in place of max.
worst_candidate_min(c_list) ==
    LET top == CHOOSE i \in 1..Len(c_list) :
                   /\ \A j \in 1..Len(c_list) : ble_rank(c_list[i]) <= ble_rank(c_list[j])
                   /\ \A j \in 1..(i - 1) : ble_rank(c_list[i]) < ble_rank(c_list[j])
    IN  c_list[top]

\* max(c_list, key=rank): the first occupant among those of the highest rank.
worst_candidate(c_list) ==
    LET top == CHOOSE i \in 1..Len(c_list) :
                   /\ \A j \in 1..Len(c_list) : ble_rank(c_list[j]) <= ble_rank(c_list[i])
                   /\ \A j \in 1..(i - 1) : ble_rank(c_list[j]) < ble_rank(c_list[i])
    IN  c_list[top]

\* current.remove(x): the list without the first occurrence of x.
Remove(c_list, x) ==
    LET i == CHOOSE j \in 1..Len(c_list) :
                 c_list[j] = x /\ \A k \in 1..(j - 1) : c_list[k] # x
    IN  SubSeq(c_list, 1, i - 1) \o SubSeq(c_list, i + 1, Len(c_list))

\* The seat the popped candidate proposes to next, and its occupants.
ble_seat_key == prefs[roll][next_prop_index[roll] + 1]
ble_current == assignments[ble_seat_key]
\* "len(current) <= cap" in place of "len(current) < cap".
ble_has_free_slot_le == Len(ble_current) <= seat_cap[ble_seat_key]
ble_has_free_slot == Len(ble_current) < seat_cap[ble_seat_key]
\* The seat that gives way to every proposer.
ble_proposer_better_any == TRUE

\* "<=" in place of "<" in the comparison of the proposer with the worst occupant.
ble_proposer_better_le == ble_rank(roll) <= ble_rank(worst_candidate(ble_current))
ble_proposer_better == ble_rank(roll) < ble_rank(worst_candidate(ble_current))
ble_proposing ==
    /\ engine = "ble" /\ pc = "match" /\ roll # 0
    /\ next_prop_index[roll] < Len(prefs[roll])

\* The proposal that leaves the index where it is.
ble_advance_not(npi, r) == npi

\* next_prop_index[roll] += 1
ble_advance(npi, r) == [npi EXCEPT ![r] = @ + 1]

\* The eviction that never returns the evicted candidate to the free list.
ble_requeue_never(free, worst, npi) == free

\* "if next_prop_index[worst] < len(prefs[worst]): free_candidates.append(worst)"
ble_requeue(free, worst, npi) ==
    IF npi[worst] < Len(prefs[worst]) THEN Append(free, worst) ELSE free

ble_fixed == UNCHANGED <<codec, rerun, engine, phase, cand, opts, seats, prev_allot, cand_sorted,
                         idx, seat_map, seat_cap, allotted, conversion_log, prefs>>

\* roll = free_candidates.pop()
BlePop ==
    /\ engine = "ble" /\ pc = "match" /\ roll = 0 /\ free_candidates # <<>>
    /\ roll' = free_candidates[Len(free_candidates)]
    /\ free_candidates' = SubSeq(free_candidates, 1, Len(free_candidates) - 1)
    /\ UNCHANGED <<pc, allotments, assignments, next_prop_index, last_prop>>
    /\ ble_fixed

\* A free slot: the seat accepts the proposer.
BleAccept ==
    /\ ble_proposing /\ ble_has_free_slot
    /\ next_prop_index' = ble_advance(next_prop_index, roll)
    /\ assignments' = [assignments EXCEPT ![ble_seat_key] = Append(@, roll)]
    /\ last_prop' = [roll |-> roll, seat |-> ble_seat_key, before |-> ble_current,
                     after |-> Append(ble_current, roll)]
    /\ roll' = 0
    /\ UNCHANGED <<pc, allotments, free_candidates>>
    /\ ble_fixed

\* The seat is full and the proposer is better than its worst occupant.
BleEvict ==
    /\ ble_proposing /\ ~ble_has_free_slot /\ ble_current # <<>>
    /\ ble_proposer_better
    /\ LET worst == worst_candidate(ble_current)
           after == Append(Remove(ble_current, worst), roll)
           npi == ble_advance(next_prop_index, roll)
       IN  /\ next_prop_index' = npi
           /\ assignments' = [assignments EXCEPT ![ble_seat_key] = after]
           /\ free_candidates' = ble_requeue(free_candidates, worst, npi)
           /\ last_prop' = [roll |-> roll, seat |-> ble_seat_key,
                            before |-> ble_current, after |-> after]
    /\ roll' = 0
    /\ UNCHANGED <<pc, allotments>>
    /\ ble_fixed

\* The seat is full and prefers its occupants: the proposer tries the next seat.
BleReject ==
    /\ ble_proposing /\ ~ble_has_free_slot /\ ble_current # <<>>
    /\ ~ble_proposer_better
    /\ next_prop_index' = ble_advance(next_prop_index, roll)
    /\ last_prop' = [roll |-> roll, seat |-> ble_seat_key, before |-> ble_current,
                     after |-> ble_current]
    /\ UNCHANGED <<pc, allotments, assignments, free_candidates, roll>>
    /\ ble_fixed

\* The preference list is exhausted: the candidate remains unmatched.
BleExhausted ==
    /\ engine = "ble" /\ pc = "match" /\ roll # 0
    /\ next_prop_index[roll] >= Len(prefs[roll])
    /\ roll' = 0
    /\ UNCHANGED <<pc, allotments, assignments, next_prop_index, free_candidates,
                   last_prop>>
    /\ ble_fixed

\* op_index[(roll, grp, typ, college, course)]: the lowest usable OPNO of the
\* candidate that decodes to the base seat (0 stands for None).
ble_op_index(r, base_key) ==
    LET ops == ble_clean_opts(opts[r])
        hits == {i \in 1..Len(ops) :
                    LET dec == ble_decode_opt(ops[i].Optn)
                    IN  dec # None /\
                        <<dec.grp, dec.typ, dec.college, dec.course>> = base_key}
    IN  IF hits = {} THEN 0
        ELSE ops[CHOOSE i \in hits : \A j \in hits : ops[i].OPNO <= ops[j].OPNO].OPNO

ble_record(seat_key, r) ==
    [RollNo |-> r, BRank |-> cand[r].BRank,
     CandidateCategory |-> Norm(cand[r].Category),
     grp |-> seat_key[1], typ |-> seat_key[2], College |-> seat_key[3],
     Course |-> seat_key[4], SeatCategory |-> seat_key[5],
     OPNO |-> ble_op_index(r, SubSeq(seat_key, 1, 4)),
     AllotCode |-> ble_make_allot_code(seat_key[1], seat_key[2], seat_key[4],
                                       seat_key[3], seat_key[5])]

RECURSIVE KeysInOrder(_, _)
\* The keys of seat_cap in insertion order: the keys of the rows, first
\* occurrence first.
KeysInOrder(rows, seen) ==
    IF rows = <<>> THEN seen
    ELSE KeysInOrder(Tail(rows),
                     IF FullKey(Head(rows)) \in Range(seen) THEN seen
                     ELSE Append(seen, FullKey(Head(rows))))

RECURSIVE ble_seat_records(_, _)
\* "for roll in rlist" of one seat.
ble_seat_records(seat_key, rlist) ==
    IF rlist = <<>> THEN <<>>
    ELSE <<ble_record(seat_key, Head(rlist))>> \o ble_seat_records(seat_key, Tail(rlist))

RECURSIVE ble_collect(_)
\* "for seat_key, rlist in assignments.items()".
ble_collect(keys) ==
    IF keys = <<>> THEN <<>>
    ELSE ble_seat_records(Head(keys), assignments[Head(keys)]) \o ble_collect(Tail(keys))

RECURSIVE InsertByRank(_, _)
InsertByRank(sorted, r) ==
    IF sorted = <<>> THEN <<r>>
    ELSE IF \/ r.BRank < Head(sorted).BRank
            \/ r.BRank = Head(sorted).BRank /\ r.RollNo < Head(sorted).RollNo
         THEN <<r>> \o sorted
    ELSE <<Head(sorted)>> \o InsertByRank(Tail(sorted), r)

RECURSIVE SortByRank(_)
\* sort_values(["BRank", "RollNo"])
SortByRank(rows) ==
    IF rows = <<>> THEN <<>>
    ELSE InsertByRank(SortByRank(SubSeq(rows, 1, Len(rows) - 1)), rows[Len(rows)])

\* The result frame: one record per occupant of every seat.
BleRecords ==
    /\ engine = "ble" /\ pc = "match" /\ roll = 0 /\ free_candidates = <<>>
    /\ allotments' = SortByRank(ble_collect(KeysInOrder(seats, <<>>)))
    /\ pc' = "done"
    /\ UNCHANGED <<assignments, next_prop_index, free_candidates, roll, last_prop>>
    /\ ble_fixed

\* The uploads the model draws from.
BleRolls == {1, 2, 3}

OptRow(r, n, code) ==
    [RollNo |-> r, OPNO |-> n, Optn |-> code, ValidOption |-> Y, Delflg |-> Blank]

\* The option files of candidate r the model draws from (rows in file order).
BleOptLists(r) ==
    IF r = 2
    THEN <<<<OptRow(r, 2, OptB), OptRow(r, 1, OptALower)>>,
           <<OptRow(r, 1, OptShort), OptRow(r, 2, OptNoSeat), OptRow(r, 3, OptA),
             OptRow(r, 4, OptALower)>>>>
    ELSE <<<<OptRow(r, 1, OptA), OptRow(r, 2, OptB)>>,
           <<OptRow(r, 1, OptB), OptRow(r, 2, OptA)>>>>

BleCategory(r) == IF r = 2 THEN NA ELSE SC

BleCandRows(r) ==
    {[RollNo |-> r, BRank |-> k, Category |-> BleCategory(r), Status |-> Blank,
      EligibleOptn |-> Blank] : k \in 1..MaxRank}

no_ble_state ==
    /\ prefs = EmptyMap /\ assignments = EmptyMap /\ next_prop_index = EmptyMap
    /\ free_candidates = <<>> /\ roll = 0 /\ last_prop = None

InitBle ==
    /\ codec = None /\ rerun = None
    /\ engine = "ble" /\ pc = "match" /\ phase = 0
    /\ \E f \in [BleRolls -> 1..MaxRank] :
           /\ f[1] = 2
           /\ cand = [r \in BleRolls |->
                         CHOOSE c \in BleCandRows(r) : c.BRank = f[r]]
    /\ \E f \in [BleRolls -> 1..2] :
           opts = [r \in BleRolls |-> BleOptLists(r)[f[r]]]
    /\ seats \in {CleanSeats(m) : m \in SeatMatrices}
    /\ prev_allot = <<>>
    /\ cand_sorted \in {q \in SeqsOf({r \in BleRolls : ble_cand_kept(cand[r])}) :
                            \A i, j \in 1..Len(q) :
                                i < j => cand[q[i]].BRank <= cand[q[j]].BRank}
    /\ idx = 0 /\ seat_map = EmptyMap
    /\ seat_cap = build_seat_cap(seats)
    /\ allotments = <<>> /\ allotted = {} /\ conversion_log = <<>>
    /\ prefs = build_preferences(cand, cand_sorted, opts, seats)
    /\ assignments = [k \in DOMAIN seat_cap |-> <<>>]
    /\ next_prop_index = [r \in DOMAIN prefs |-> 0]
    /\ free_candidates = SelectSeq(cand_sorted, LAMBDA r : r \in DOMAIN prefs)
    /\ roll = 0
    /\ last_prop = None

NextBle == BlePop \/ BleAccept \/ BleEvict \/ BleReject \/ BleExhausted \/ BleRecords

SpecBle == InitBle /\ [][NextBle]_vars

\* One step of the loops of stable_allocation.
BleLoop == BlePop \/ BleAccept \/ BleEvict \/ BleReject \/ BleExhausted

\* The loops of stable_allocation run on: a step of the loops that can be
\* taken is not put off for ever.
FairSpecBle == SpecBle /\ WF_vars(BleLoop)

\* A second call stable_allocation(prefs, seat_cap, rank) on the same seat_cap
\* and rank and on a prefs dict with the same lists under keys in another
\* order: "assignments = {k: [] for k in seat_cap}", "next_prop_index =
\* {roll: 0 for roll in prefs}", "free_candidates = list(prefs.keys())".  The
\* queue and the assignments of the first call are kept in rerun.
BleAgain ==
    /\ engine = "ble" /\ pc = "match" /\ roll = 0 /\ free_candidates = <<>>
    /\ rerun = None
    /\ \E q \in SeqsOf(DOMAIN prefs) :
           /\ free_candidates' = q
           /\ rerun' = [first |-> SelectSeq(cand_sorted, LAMBDA r : r \in DOMAIN prefs),
                        assignments |-> assignments, second |-> q]
    /\ assignments' = [k \in DOMAIN seat_cap |-> <<>>]
    /\ next_prop_index' = [r \in DOMAIN prefs |-> 0]
    /\ last_prop' = None
    /\ UNCHANGED <<codec, engine, pc, phase, cand, opts, seats, prev_allot, cand_sorted,
                   idx, seat_map, seat_cap, allotments, allotted, conversion_log,
                   prefs, roll>>

\* stable_allocation called twice on the same prefs, seat_cap and rank, the
\* second time with the candidates queued in any order.
NextOrder == BleLoop \/ BleAgain

SpecOrder == InitBle /\ [][NextOrder]_vars

(***************************************************************************)
(* dnm.py                                                                  *)
(***************************************************************************)
\* Code points order the characters the model uses.
Alphabet == <<" ", "/", "A", "B", "C", "D", "E", "G", "H", "I", "K", "L", "M", "N",
              "O", "P", "Q", "R", "S", "T", "U", "V", "W", "X", "Y", "Z",
              "a", "b", "g", "k", "m", "n", "s", "y", "|">>

CharOrd(c) == CHOOSE i \in 1..Len(Alphabet) : Alphabet[i] = c

RECURSIVE TextLess(_, _)
\* a < b for Python strings.
TextLess(a, b) ==
    IF b = <<>> THEN FALSE
    ELSE IF a = <<>> THEN TRUE
    ELSE IF Head(a) # Head(b) THEN CharOrd(Head(a)) < CharOrd(Head(b))
    ELSE TextLess(Tail(a), Tail(b))

\* sorted(S) for a set of texts.
SortedTexts(T) ==
    CHOOSE q \in SeqsOf(T) : \A i, j \in 1..Len(q) : i < j => TextLess(q[i], q[j])

\* str(x) of a cell: a missing cell (NaN) reads "nan".
NaN == <<"n", "a", "n">>

category_eligible(seat_cat0, cand_cat0) ==
    LET seat_cat == Norm(seat_cat0)
        cand_cat == Norm(cand_cat0)
    IN  IF seat_cat \in {AM, SM} THEN TRUE
        ELSE IF cand_cat \in {Blank, NA, NULL, <<"N", "/", "A">>} THEN FALSE
        ELSE seat_cat = cand_cat

\* The column that holds the join status of the phase just completed ("" stands
\* for None).
joinstatus_col(ph) ==
    CASE ph = "PHASE2" -> "JOINSTATUS_1"
      [] ph = "PHASE3" -> "JOINSTATUS_2"
      [] ph = "PHASE4" -> "JOINSTATUS_3"
      [] OTHER -> ""

is_candidate_eligible(row, ph) ==
    LET curr_admn == Strip(row.Curr_Admn)
        js == joinstatus_col(ph)
    IN  IF curr_admn # Blank THEN TRUE
        ELSE IF ph = "PHASE1" THEN TRUE
        ELSE IF js # "" /\ Upper(Strip(row[js])) = N THEN FALSE
        ELSE TRUE

dnm_decode_opt(opt0) ==
    LET opt == Upper(Strip(opt0))
    IN  IF Len(opt) < 7 THEN None
        ELSE <<Slice(opt, 0, 1), Slice(opt, 1, 2), Slice(opt, 2, 4), Slice(opt, 4, 7)>>

dnm_opt_usable(r) ==
    /\ r.OPNO # 0
    /\ Upper(r.ValidOption) = Y
    /\ Upper(r.Delflg) # Y

\* c_opts: the usable option rows of one candidate, sorted by OPNO.
dnm_c_opts(rows) == SortByOPNO(SelectSeq(rows, dnm_opt_usable))

\* The candidates that pass the eligibility filter.
dnm_pool(cand_df, ph) == {r \in DOMAIN cand_df : is_candidate_eligible(cand_df[r], ph)}

dnm_is_protected(row) == Strip(row.Curr_Admn) # Blank

\* cand_sorted: the protected candidates by ARank, then the fresh ones by ARank;
\* sort_values does not fix the order of equal ranks.
dnm_cand_sorted(cand_df, ph) ==
    {q \in SeqsOf(dnm_pool(cand_df, ph)) :
        \A i, j \in 1..Len(q) :
            i < j =>
                LET a == cand_df[q[i]]
                    b == cand_df[q[j]]
                IN  \/ dnm_is_protected(a) /\ ~dnm_is_protected(b)
                    \/ /\ dnm_is_protected(a) = dnm_is_protected(b)
                       /\ a.ARank <= b.ARank}

\* seat_map of the cleaned seat matrix.
dnm_seat_map(seats_df) == SumSeats(CleanSeats(seats_df), EmptyMap)

prev_key(r) == <<r.grp, r.typ, r.College, r.Course, r.SeatCategoryAllotted>>

\* The seeding that takes one unit without the floor of 0.
dnm_seed_one_unclamped(n) == n - 1

\* "max(0, seat_map[key] - 1)" of the seeding loop.
dnm_seed_one(n) == IF n - 1 > 0 THEN n - 1 ELSE 0

RECURSIVE dnm_reduce(_, _)
\* REDUCE SEATS (PREVIOUS PHASE): one unit per previous row whose key is known.
dnm_reduce(rows, m) ==
    IF rows = <<>> THEN m
    ELSE dnm_reduce(Tail(rows),
                    IF prev_key(Head(rows)) \in DOMAIN m
                    THEN Put(m, prev_key(Head(rows)), dnm_seed_one(m[prev_key(Head(rows))]))
                    ELSE m)

\* current_seat_key of a candidate row (None when Curr_Admn is empty or does not
\* split into five parts).
dnm_current_seat_key(row) ==
    IF Strip(row.Curr_Admn) = Blank THEN None
    ELSE LET parts == Split(row.Curr_Admn, "|")
         IN  IF Len(parts) = 5
             THEN <<Strip(Upper(parts[1])), Strip(Upper(parts[2])),
                    Strip(Upper(parts[3])), Strip(Upper(parts[4])),
                    Strip(Upper(parts[5]))>>
             ELSE None

\* The categories of the seat rows of a base seat.
dnm_seat_cats(rows, dec) ==
    {rows[i].category :
        i \in {j \in 1..Len(rows) :
                  /\ rows[j].grp = dec[1] /\ rows[j].typ = dec[2]
                  /\ rows[j].college = dec[4] /\ rows[j].course = dec[3]}}

\* The priority list with the open categories at the end.
dnm_priority_open_last(cats) == SortedTexts(cats \ {AM, SM}) \o <<AM, SM>>

\* priority = ["AM", "SM"] + sorted(set(seat_rows["category"]) - {"AM", "SM"})
dnm_priority(cats) == <<AM, SM>> \o SortedTexts(cats \ {AM, SM})

\* A category is taken when the seat matrix has it at the base seat, its
\* remaining count is positive and the candidate is eligible for it.
dnm_takes(m, cats, dec, cat, ccat) ==
    /\ cat \in cats
    /\ Get(m, <<dec[1], dec[2], dec[4], dec[3], cat>>) > 0
    /\ category_eligible(cat, ccat)

\* chosen_cat for one option: the first category of the priority list that is
\* taken (None when there is none).
dnm_chosen_cat(m, rows, dec, ccat) ==
    LET cats == dnm_seat_cats(rows, dec)
        pri == dnm_priority(cats)
        hits == {i \in 1..Len(pri) : dnm_takes(m, cats, dec, pri[i], ccat)}
    IN  IF hits = {} THEN None
        ELSE pri[CHOOSE i \in hits : \A j \in hits : i <= j]

RECURSIVE dnm_first_hit_stop(_, _, _, _)
\* The walk that ends at the first option that does not decode or has no seat
\* rows.
dnm_first_hit_stop(ops, m, rows, ccat) ==
    IF ops = <<>> THEN None
    ELSE LET dec == dnm_decode_opt(Head(ops).Optn)
             cat == IF dec = None THEN None ELSE dnm_chosen_cat(m, rows, dec, ccat)
         IN  IF cat # None THEN <<Head(ops), cat>>
             ELSE IF dec = None \/ dnm_seat_cats(rows, dec) = {} THEN None
             ELSE dnm_first_hit_stop(Tail(ops), m, rows, ccat)

RECURSIVE dnm_first_hit(_, _, _, _)
\* The first option of c_opts that decodes, has seat rows and yields a chosen
\* category: <<option row, chosen_cat>>, or None.
dnm_first_hit(ops, m, rows, ccat) ==
    IF ops = <<>> THEN None
    ELSE LET dec == dnm_decode_opt(Head(ops).Optn)
             cat == IF dec = None THEN None ELSE dnm_chosen_cat(m, rows, dec, ccat)
         IN  IF cat # None THEN <<Head(ops), cat>>
             ELSE dnm_first_hit(Tail(ops), m, rows, ccat)

\* "UPGRADE -> RELEASE OLD SEAT": the ledger after the old seat is given back.
dnm_release(m, current_seat_key) ==
    IF current_seat_key # None
    THEN Put(m, current_seat_key, Get(m, current_seat_key) + 1)
    ELSE m

dnm_row(ph, c, dec, chosen_cat) ==
    [Phase |-> ph, RollNo |-> c.RollNo, ARank |-> c.ARank,
     CandidateCategory |-> Strip(Upper(c.Category)),
     grp |-> dec[1], typ |-> dec[2], College |-> dec[4], Course |-> dec[3],
     SeatCategoryAllotted |-> chosen_cat]

dnm_fixed == UNCHANGED <<codec, rerun, engine, phase, cand, opts, seats, prev_allot, cand_sorted,
                         seat_cap, allotted, conversion_log, prefs, assignments,
                         next_prop_index, free_candidates, roll, last_prop>>

\* The seeding of the ledger from the previous phase's allotment.
DnmSeed ==
    /\ engine = "dnm" /\ pc = "seed"
    /\ seat_map' = dnm_reduce(prev_allot, seat_map)
    /\ pc' = "allot"
    /\ UNCHANGED <<idx, allotments>>
    /\ dnm_fixed

\* One turn of "for _, c in cand_sorted.iterrows()".
DnmStep ==
    /\ engine = "dnm" /\ pc = "allot" /\ idx < Len(cand_sorted)
    /\ LET c == cand[cand_sorted[idx + 1]]
           hit == dnm_first_hit(dnm_c_opts(opts[c.RollNo]), seat_map,
                                seats, Strip(Upper(c.Category)))
       IN  IF hit = None
           THEN UNCHANGED <<seat_map, allotments>>
           ELSE LET dec == dnm_decode_opt(hit[1].Optn)
                    chosen_key == <<dec[1], dec[2], dec[4], dec[3], hit[2]>>
                    released == dnm_release(seat_map, dnm_current_seat_key(c))
                IN  /\ seat_map' = Put(released, chosen_key, released[chosen_key] - 1)
                    /\ allotments' = Append(allotments, dnm_row(phase, c, dec, hit[2]))
    /\ idx' = idx + 1
    /\ UNCHANGED pc
    /\ dnm_fixed

\* The loop is over: the result frame is allotments.
DnmResult ==
    /\ engine = "dnm" /\ pc = "allot" /\ idx = Len(cand_sorted)
    /\ pc' = "done"
    /\ UNCHANGED <<idx, seat_map, allotments>>
    /\ dnm_fixed

\* The uploads the model draws from.  Candidate 1 (category SC) may hold the SC
\* seat of the first base seat, candidate 2 (no category) the open seat of the
\* second one.
DnmRolls == {1, 2}

AdmnK1 == <<"B", "|", "G", "|", "K", "K", "M", "|", "V", "L", "|", "S", "C">>
AdmnK2 == <<"b", "|", "g", "|", "T", "V", "M", "|", "V", "L", "|", " ", "S", "M">>

PrevRow(r, col, cat) ==
    [RollNo |-> r, grp |-> <<"B">>, typ |-> <<"G">>, College |-> col,
     Course |-> <<"V", "L">>, SeatCategoryAllotted |-> cat]

PrevK1 == PrevRow(1, <<"K", "K", "M">>, SC)
PrevK2 == PrevRow(2, <<"T", "V", "M">>, SM)

\* A history: the current-admission cell, the three join-status cells and the
\* candidate's rows of the previous allotment.
History(curr, js1, js2, js3, prev) ==
    [Curr_Admn |-> curr, JOINSTATUS_1 |-> js1, JOINSTATUS_2 |-> js2,
     JOINSTATUS_3 |-> js3, prev |-> prev]

DnmHistories(r) ==
    IF r = 1
    THEN <<History(Blank, NaN, NaN, NaN, <<>>),          \* never allotted
           History(NaN, Y, Y, Blank, <<>>),              \* the cell is missing
           History(AdmnK1, Y, Y, Y, <<PrevK1>>),         \* allotted and joined
           History(AdmnK1, Y, Y, Y, <<>>),               \* holds a seat of an earlier phase
           History(AdmnK1, N, Y, Y, <<PrevK1>>),         \* did not join, code kept
           History(<<" ">>, <<"n", " ">>, Y, Y, <<PrevK1>>), \* did not join
           History(NaN, Y, N, Y, <<PrevK1>>)>>           \* did not join, cell missing
    ELSE <<History(Blank, Blank, Blank, Blank, <<>>),
           History(Blank, Y, Y, N, <<PrevK2>>),
           History(AdmnK2, Y, Y, Y, <<PrevK2>>),
           History(NaN, NaN, NaN, N, <<>>)>>

DnmCategory(r) == IF r = 1 THEN SC ELSE <<"n", "a">>

\* In a first-phase upload candidate 1 may have withdrawn (Status "S") and
\* candidate 2 may have no rank.
DnmStatuses(ph) == IF ph = "PHASE1" THEN {NaN, <<"S">>} ELSE {NaN}

DnmRanks(ph) == IF ph = "PHASE1" THEN 0..MaxRank ELSE 1..MaxRank

DnmCandRow(r, k, st, h) ==
    [RollNo |-> r, ARank |-> k, Category |-> DnmCategory(r), Status |-> st,
     Curr_Admn |-> h.Curr_Admn, JOINSTATUS_1 |-> h.JOINSTATUS_1,
     JOINSTATUS_2 |-> h.JOINSTATUS_2, JOINSTATUS_3 |-> h.JOINSTATUS_3]

\* The option files of candidate r (rows in file order): one of candidate 1
\* holds a negative number; the last one of candidate 2 holds a short code, a
\* withdrawn row, a row that is not valid and a code without seat rows.
DnmOptLists(r) ==
    IF r = 1
    THEN <<<<OptRow(r, 1, OptA), OptRow(r, 2, OptB)>>,
           <<OptRow(r, -1, OptB), OptRow(r, 2, OptA)>>>>
    ELSE <<<<OptRow(r, 2, OptB), OptRow(r, 1, OptALower)>>,
           <<OptRow(r, 1, OptShort),
             [OptRow(r, 2, OptA) EXCEPT !.Delflg = Y],
             [OptRow(r, 3, OptA) EXCEPT !.ValidOption = N],
             OptRow(r, 4, OptNoSeat),
             OptRow(r, 5, OptB)>>>>

InitDnm ==
    /\ codec = None /\ rerun = None
    /\ engine = "dnm" /\ pc = "seed"
    /\ phase \in {"PHASE1", "PHASE2", "PHASE3", "PHASE4"}
    /\ \E k \in DnmRanks(phase), st \in DnmStatuses(phase), h \in [DnmRolls -> 1..7] :
           /\ \A r \in DnmRolls : h[r] <= Len(DnmHistories(r))
           /\ phase = "PHASE1" => \A r \in DnmRolls : h[r] = 1
           /\ cand = [r \in DnmRolls |->
                         DnmCandRow(r, IF r = 1 THEN 2 ELSE k,
                                    IF r = 1 THEN st ELSE NaN, DnmHistories(r)[h[r]])]
           /\ prev_allot = IF phase = "PHASE1" THEN <<>>
                           ELSE DnmHistories(1)[h[1]].prev \o DnmHistories(2)[h[2]].prev
    /\ \E f \in [DnmRolls -> 1..2] :
           opts = [r \in DnmRolls |-> DnmOptLists(r)[f[r]]]
    /\ seats \in {CleanSeats(m) : m \in SeatMatrices}
    /\ cand_sorted \in dnm_cand_sorted(cand, phase)
    /\ idx = 0
    /\ seat_map = dnm_seat_map(seats)
    /\ seat_cap = EmptyMap
    /\ allotments = <<>> /\ allotted = {} /\ conversion_log = <<>>
    /\ no_ble_state

NextDnm == DnmSeed \/ DnmStep \/ DnmResult

SpecDnm == InitDnm /\ [][NextDnm]_vars

(***************************************************************************)
(* llm_allotment.py                                                        *)
(***************************************************************************)
llm_decode_opt(opt0) ==
    LET opt == Strip(Upper(opt0))
    IN  IF Len(opt) < 7 THEN None
        ELSE [grp |-> Slice(opt, 0, 1), typ |-> Slice(opt, 1, 2),
              course |-> Slice(opt, 2, 4), college |-> Slice(opt, 4, 7)]

llm_make_allot_code(g, t, c, col, cat) ==
    LET c2 == Slice(cat, 0, 2)
    IN  g \o t \o c \o col \o c2 \o c2

\* The chain that makes the seat of EW convertible (the policy forbids it).
CONVERSION_MAP_ew ==
    [seat_cat \in {SC, ST, PD, MU, <<"E", "Z">>, <<"B", "H">>, <<"B", "X">>,
                   <<"K", "N">>, <<"K", "U">>, <<"V", "K">>, <<"D", "V">>, EW} |->
        CASE seat_cat = SC -> <<ST, OE, SM>>
          [] seat_cat = ST -> <<SC, OE, SM>>
          [] OTHER -> <<SM>>]

\* CONVERSION POLICY (PHASE >= 3)
CONVERSION_MAP ==
    [seat_cat \in {SC, ST, PD, MU, <<"E", "Z">>, <<"B", "H">>, <<"B", "X">>,
                   <<"K", "N">>, <<"K", "U">>, <<"V", "K">>, <<"D", "V">>, EW} |->
        CASE seat_cat = SC -> <<ST, OE, SM>>
          [] seat_cat = ST -> <<SC, OE, SM>>
          [] seat_cat = EW -> <<>>
          [] OTHER -> <<SM>>]

\* CONVERSION_MAP.get(seat_cat, [])
llm_chain(seat_cat) ==
    IF seat_cat \in DOMAIN CONVERSION_MAP THEN CONVERSION_MAP[seat_cat] ELSE <<>>

eligible(seat_cat, cand_cat, special3, others) ==
    IF seat_cat = SM THEN TRUE
    ELSE IF seat_cat = PD THEN special3 = PD
    ELSE IF seat_cat = OE THEN others = OE
    ELSE seat_cat = cand_cat

\* A candidate row after the CANDIDATES block.
llm_clean_cand(c) ==
    [RollNo |-> c.RollNo, LRank |-> c.LRank, Status |-> Strip(Upper(c.Status)),
     Category |-> Strip(Upper(c.Category)), Special3 |-> Strip(Upper(c.Special3)),
     Others |-> Strip(Upper(c.Others))]

\* cand[cand["Status"] != "S"]
llm_pool(cand_df) == {r \in DOMAIN cand_df : llm_clean_cand(cand_df[r]).Status # S}

\* cand.sort_values("LRank"): every order of the pool with LRank ascending (the
\* sort does not fix the order of equal ranks).
llm_cand_sorted(cand_df) ==
    {q \in SeqsOf(llm_pool(cand_df)) :
        \A i, j \in 1..Len(q) : i < j => cand_df[q[i]].LRank <= cand_df[q[j]].LRank}

RECURSIVE llm_clean_opts(_)
\* Optn upper-cased and trimmed, row by row.
llm_clean_opts(rows) ==
    IF rows = <<>> THEN <<>>
    ELSE <<[Head(rows) EXCEPT !.Optn = Strip(Upper(Head(rows).Optn))]>>
         \o llm_clean_opts(Tail(rows))

\* opts_by_roll[roll]: the option rows of one candidate, sorted by OPNO (no row:
\* the roll is not in opts_by_roll).
llm_opts_by_roll(rows) == SortByOPNO(llm_clean_opts(rows))

\* seat_cap[base][category] += SEAT, kept here under the key (base, category).
llm_seat_cap(seats_df) == SumSeats(CleanSeats(seats_df), EmptyMap)

llm_base(dec) == <<dec.grp, dec.typ, dec.college, dec.course>>

\* Pass 1 without the step of the candidate's own category.
llm_pass1_cat_no_own(cap, base, C) ==
    IF C.Special3 = PD /\ Get(cap, Append(base, PD)) > 0 THEN <<PD>>
    ELSE IF Get(cap, Append(base, SM)) > 0 THEN <<SM>>
    ELSE <<>>

\* The category Pass 1 takes at one base seat, as a list of one element (empty:
\* none): PD, then the candidate's own category, then SM.
llm_pass1_cat(cap, base, C) ==
    IF C.Special3 = PD /\ Get(cap, Append(base, PD)) > 0 THEN <<PD>>
    ELSE IF Get(cap, Append(base, C.Category)) > 0 THEN <<C.Category>>
    ELSE IF Get(cap, Append(base, SM)) > 0 THEN <<SM>>
    ELSE <<>>

RECURSIVE llm_pass1_hit(_, _, _)
\* The first option that decodes and yields a category: <<option, category>>.
llm_pass1_hit(ops, cap, C) ==
    IF ops = <<>> THEN None
    ELSE LET dec == llm_decode_opt(Head(ops).Optn)
             cat == IF dec = None THEN <<>> ELSE llm_pass1_cat(cap, llm_base(dec), C)
         IN  IF cat # <<>> THEN <<Head(ops), cat[1]>>
             ELSE llm_pass1_hit(Tail(ops), cap, C)

llm_result(C, base, cat, op) ==
    [RollNo |-> C.RollNo, LRank |-> C.LRank, College |-> base[3], Course |-> base[4],
     SeatCategory |-> cat, OPNO |-> op.OPNO,
     AllotCode |-> llm_make_allot_code(base[1], base[2], base[3], base[4], cat)]

\* list(seat_cap[base].items()): the categories of one base seat in insertion
\* order.  A category created by a read of the defaultdict has count 0 and is
\* passed over by the loop, so the order of the seat rows is the order that counts.
llm_items(keys, base) ==
    SelectSeq(keys, LAMBDA k : SubSeq(k, 1, 4) = base)

\* The conversion that goes to the end of the chain at once.
llm_first_conv_last(chain, C) ==
    IF chain = <<>> THEN <<>> ELSE <<chain[Len(chain)]>>

RECURSIVE llm_first_conv(_, _)
\* The first category of a chain the candidate is eligible for (list of one
\* element, empty: none).
llm_first_conv(chain, C) ==
    IF chain = <<>> THEN <<>>
    ELSE IF eligible(Head(chain), C.Category, C.Special3, C.Others) THEN <<Head(chain)>>
    ELSE llm_first_conv(Tail(chain), C)

RECURSIVE llm_conv_cat(_, _, _)
\* The first vacant category of the items that has a conversion for the
\* candidate: <<seat_cat, conv>>.
llm_conv_cat(items, cap, C) ==
    IF items = <<>> THEN None
    ELSE LET seat_cat == Head(items)[5]
             conv == IF cap[Head(items)] <= 0 THEN <<>>
                     ELSE llm_first_conv(llm_chain(seat_cat), C)
         IN  IF conv # <<>> THEN <<seat_cat, conv[1]>>
             ELSE llm_conv_cat(Tail(items), cap, C)

RECURSIVE llm_conv_hit(_, _, _, _)
\* The first option that decodes and has a conversion: <<option, seat_cat, conv>>.
llm_conv_hit(ops, cap, keys, C) ==
    IF ops = <<>> THEN None
    ELSE LET dec == llm_decode_opt(Head(ops).Optn)
             sc == IF dec = None THEN None
                   ELSE llm_conv_cat(llm_items(keys, llm_base(dec)), cap, C)
         IN  IF sc # None THEN <<Head(ops), sc[1], sc[2]>>
             ELSE llm_conv_hit(Tail(ops), cap, keys, C)

\* The skip that forgets who was allotted in Pass 1.
llm_skipped_forgetful(r, done, ops) == ops = <<>>

\* "if roll in allotted or roll not in opts_by_roll: continue"
llm_skipped(r, done, ops) == r \in done \/ ops = <<>>

llm_fixed == UNCHANGED <<codec, rerun, engine, phase, cand, opts, seats, prev_allot, cand_sorted,
                         seat_map, prefs, assignments, next_prop_index,
                         free_candidates, roll, last_prop>>

\* PASS 1, one turn of "for _, C in cand.iterrows()".
LlmPass1 ==
    /\ engine = "llm" /\ pc = "pass1" /\ idx < Len(cand_sorted)
    /\ LET C == llm_clean_cand(cand[cand_sorted[idx + 1]])
           ops == llm_opts_by_roll(opts[C.RollNo])
           hit == IF phase >= 3 /\ ops = <<>> THEN None
                  ELSE llm_pass1_hit(ops, seat_cap, C)
       IN  IF hit = None
           THEN UNCHANGED <<seat_cap, allotted, allotments>>
           ELSE LET base == llm_base(llm_decode_opt(hit[1].Optn))
                    key == Append(base, hit[2])
                IN  /\ seat_cap' = Put(seat_cap, key, seat_cap[key] - 1)
                    /\ allotted' = allotted \cup {C.RollNo}
                    /\ allotments' = Append(allotments, llm_result(C, base, hit[2], hit[1]))
    /\ idx' = idx + 1
    /\ UNCHANGED <<pc, conversion_log>>
    /\ llm_fixed

\* Pass 1 is over: "if phase >= 3" opens the conversion pass.
LlmPass1End ==
    /\ engine = "llm" /\ pc = "pass1" /\ idx = Len(cand_sorted)
    /\ pc' = IF phase >= 3 THEN "pass2" ELSE "done"
    /\ idx' = 0
    /\ UNCHANGED <<seat_cap, allotted, allotments, conversion_log>>
    /\ llm_fixed

\* PASS 2, one turn of "for _, C in cand.iterrows()".  A failing assertion ends
\* the script (pc = "failed").
LlmConvert ==
    /\ engine = "llm" /\ pc = "pass2" /\ idx < Len(cand_sorted)
    /\ LET C == llm_clean_cand(cand[cand_sorted[idx + 1]])
           ops == llm_opts_by_roll(opts[C.RollNo])
           keys == KeysInOrder(seats, <<>>)
           hit == IF llm_skipped(C.RollNo, allotted, ops) THEN None
                  ELSE llm_conv_hit(ops, seat_cap, keys, C)
       IN  IF hit = None
           THEN /\ idx' = idx + 1
                /\ UNCHANGED <<pc, seat_cap, allotted, allotments, conversion_log>>
           ELSE LET base == llm_base(llm_decode_opt(hit[1].Optn))
                    key == Append(base, hit[2])
                IN  IF hit[2] = EW \/ ~(seat_cap[key] > 0)
                    THEN /\ pc' = "failed"
                         /\ UNCHANGED <<idx, seat_cap, allotted, allotments,
                                        conversion_log>>
                    ELSE /\ seat_cap' = Put(seat_cap, key, seat_cap[key] - 1)
                         /\ allotted' = allotted \cup {C.RollNo}
                         /\ allotments' =
                                Append(allotments, llm_result(C, base, hit[3], hit[1]))
                         /\ conversion_log' =
                                Append(conversion_log,
                                       [College |-> base[3], Course |-> base[4],
                                        FromSeat |-> hit[2], ToSeat |-> hit[3],
                                        RollNo |-> C.RollNo])
                         /\ idx' = idx + 1
                         /\ UNCHANGED pc
    /\ llm_fixed

\* The passes are over: df_res is made of results.
LlmResult ==
    /\ engine = "llm" /\ pc = "pass2" /\ idx = Len(cand_sorted)
    /\ pc' = "done"
    /\ UNCHANGED <<idx, seat_cap, allotted, allotments, conversion_log>>
    /\ llm_fixed

\* The uploads the model draws from.
LlmRolls == {1, 2}

\* Candidate 1 has confirmed, candidate 2 has not (the ConfirmFlag cell is empty).
LlmCandRow(r, k, st, cat, sp, ot) ==
    [RollNo |-> r, LRank |-> k, Status |-> st, Category |-> cat, Special3 |-> sp,
     Others |-> ot, ConfirmFlag |-> IF r = 1 THEN Y ELSE NaN]

\* Candidate 1 is of category SC, may be a PD candidate and may have withdrawn,
\* or carries "pd" in the Category column; candidate 2 is of category ST, of
\* category EW with the OE flag, or of no category ("na"), and may have no rank.
LlmCandRows(r, k) ==
    IF r = 1
    THEN {LlmCandRow(r, 2, NaN, SC, NaN, NaN),
          LlmCandRow(r, 2, <<"s", " ">>, SC, NaN, NaN),
          LlmCandRow(r, 2, NaN, SC, <<"p", "d">>, NaN),
          LlmCandRow(r, 2, NaN, <<"p", "d">>, NaN, NaN)}
    ELSE {LlmCandRow(r, k, Blank, <<"s", "t">>, NaN, NaN),
          LlmCandRow(r, k, Blank, EW, NaN, <<"o", "e">>),
          LlmCandRow(r, k, Blank, <<"n", "a">>, NaN, NaN)}

\* The option files of candidate r; one row has no number (OPNO reads 0), one
\* row is withdrawn (Delflg = Y).
LlmOptLists(r) ==
    IF r = 1
    THEN <<<<OptRow(r, 1, OptA), OptRow(r, 2, OptB)>>,
           <<OptRow(r, 0, OptB), OptRow(r, 2, OptA)>>>>
    ELSE <<<<OptRow(r, 2, OptB), OptRow(r, 1, OptALower)>>,
           <<OptRow(r, 1, OptShort), [OptRow(r, 2, OptB) EXCEPT !.Delflg = Y]>>,
           <<>>>>

\* Seat matrices: the first base seat has SC, PD and EW seats, the second one
\* an OE seat, open seats and a seat whose category reads "NA".
LlmSeatMatrices ==
    {<<SeatRow(<<"B">>, <<"G">>, <<"K", "K", "M">>, <<"V", "L">>, SC, a),
       SeatRow(<<"B">>, <<"G">>, <<"K", "K", "M">>, <<"V", "L">>, <<"p", "d">>, b),
       SeatRow(<<"B">>, <<"G">>, <<"K", "K", "M">>, <<"V", "L">>, EW, 1),
       SeatRow(<<"B">>, <<"G">>, <<"T", "V", "M">>, <<"V", "L">>, OE, 1),
       SeatRow(<<"B">>, <<"G">>, <<"T", "V", "M">>, <<"V", "L">>, <<"s", "m", " ">>, c),
       SeatRow(<<"B">>, <<"G">>, <<"T", "V", "M">>, <<"V", "L">>, NA, 1)>>
        : a \in 0..MaxSeat, b \in 0..1, c \in 0..1}

\* The previous allotment uploaded for a later phase: candidate 1 holds the SC
\* seat of the first base seat.
LlmPrev ==
    <<[RollNo |-> 1, LRank |-> 2, College |-> <<"K", "K", "M">>,
       Course |-> <<"V", "L">>, SeatCategory |-> SC, OPNO |-> 1,
       AllotCode |-> llm_make_allot_code(<<"B">>, <<"G">>, <<"K", "K", "M">>,
                                         <<"V", "L">>, SC)]>>

InitLlm ==
    /\ codec = None /\ rerun = None
    /\ engine = "llm" /\ pc = "pass1"
    /\ phase \in 1..4
    /\ \E k \in 0..MaxRank : \E c1 \in LlmCandRows(1, k), c2 \in LlmCandRows(2, k) :
           cand = [r \in LlmRolls |-> IF r = 1 THEN c1 ELSE c2]
    /\ \E f \in [LlmRolls -> 1..3] :
           /\ \A r \in LlmRolls : f[r] <= Len(LlmOptLists(r))
           /\ opts = [r \in LlmRolls |-> LlmOptLists(r)[f[r]]]
    /\ seats \in {CleanSeats(m) : m \in LlmSeatMatrices}
    /\ prev_allot = IF phase = 1 THEN <<>> ELSE LlmPrev
    /\ cand_sorted \in llm_cand_sorted(cand)
    /\ idx = 0
    /\ seat_cap = llm_seat_cap(seats)
    /\ seat_map = EmptyMap
    /\ allotments = <<>> /\ allotted = {} /\ conversion_log = <<>>
    /\ no_ble_state

NextLlm == LlmPass1 \/ LlmPass1End \/ LlmConvert \/ LlmResult

SpecLlm == InitLlm /\ [][NextLlm]_vars

(***************************************************************************)
(* pgm.py                                                                  *)
(***************************************************************************)
R == <<"R">>
NRNC == <<"N", "R", "N", "C">>

eligible_category(seat_cat0, cand_cat0) ==
    LET seat_cat == Strip(Upper(seat_cat0))
        c == Strip(Upper(cand_cat0))
        cand_cat == IF c \in {Blank, NULL, NA} THEN NA ELSE c
    IN  IF seat_cat \in {HQ, MQ, IQ} THEN TRUE
        ELSE IF seat_cat = SM THEN TRUE
        ELSE IF seat_cat \in {PD, CD, AC, MM, NR, NC} THEN TRUE
        ELSE IF cand_cat = NA THEN FALSE
        ELSE seat_cat = cand_cat

passes_special_rules(seat_cat0, flag0, c_row) ==
    LET seat_cat == Strip(Upper(seat_cat0))
        flag == Strip(Upper(flag0))
        cand_nri == Strip(Upper(c_row.NRI))
        cand_min == Strip(Upper(c_row.Minority))
        cand_sp3 == Strip(Upper(c_row.Special3))
        cand_cat == Strip(Upper(c_row.Category))
    IN  IF seat_cat = NR /\ (flag # R \/ cand_nri # NR) THEN FALSE
        ELSE IF seat_cat = NC /\ (flag # R \/ cand_nri # NRNC) THEN FALSE
        ELSE IF seat_cat = AC /\ (flag # Y \/ cand_min # AC) THEN FALSE
        ELSE IF seat_cat = MM /\ (flag # Y \/ cand_min # MM) THEN FALSE
        ELSE IF seat_cat = PD /\ cand_sp3 # PD THEN FALSE
        ELSE IF seat_cat = CD /\ ~(cand_cat = SC /\ cand_sp3 = PD) THEN FALSE
        ELSE TRUE

\* Decode 8-char PG option.
pgm_decode_opt(opt0) ==
    LET opt == Strip(Upper(opt0))
    IN  IF Len(opt) # 8 THEN None
        ELSE [prog |-> Slice(opt, 0, 1), typ |-> Slice(opt, 1, 2),
              course |-> Slice(opt, 2, 4), college |-> Slice(opt, 4, 7),
              flag |-> Slice(opt, 7, 8)]

\* The allot code with the category written once.
pgm_make_allot_code_once(prog, typ, course, college, category) ==
    prog \o typ \o course \o college \o Upper(Slice(category, 0, 2))

pgm_make_allot_code(prog, typ, course, college, category) ==
    LET cat2 == Upper(Slice(category, 0, 2))
    IN  prog \o typ \o course \o college \o cat2 \o cat2

\* A candidate row after CLEAN CANDIDATES (the text columns are upper-cased,
\* not trimmed).
pgm_clean_cand(c) ==
    [c EXCEPT !.Category = Upper(c.Category), !.NRI = Upper(c.NRI),
              !.Minority = Upper(c.Minority), !.Special3 = Upper(c.Special3),
              !.Status = Upper(c.Status)]

\* The pool that keeps the withdrawn candidates.
pgm_pool_all(cand_df) == {r \in DOMAIN cand_df : cand_df[r].PRank > 0}

\* Remove ineligible candidates.
pgm_pool(cand_df) ==
    {r \in DOMAIN cand_df :
        cand_df[r].PRank > 0 /\ pgm_clean_cand(cand_df[r]).Status # S}

\* The pool in file order: the frame that is never sorted.
pgm_cand_unsorted(cand_df) == SeqsOf(pgm_pool(cand_df))

\* sort_values("PRank"): every order of the pool with PRank ascending.
pgm_cand_sorted(cand_df) ==
    {q \in SeqsOf(pgm_pool(cand_df)) :
        \A i, j \in 1..Len(q) : i < j => cand_df[q[i]].PRank <= cand_df[q[j]].PRank}

pgm_opt_usable(r) ==
    /\ r.OPNO > 0
    /\ Upper(r.ValidOption) = Y
    /\ Upper(r.Delflg) # Y

\* opts_by_roll[roll]
pgm_opts_by_roll(rows) == SortByOPNO(SelectSeq(rows, pgm_opt_usable))

pgm_key(r) == <<r.grp, r.typ, r.course, r.college, r.category>>

RECURSIVE pgm_sum_seats(_, _)
\* seat_map[key] = seat_map.get(key, 0) + int(r.SEAT), over the seat rows.
pgm_sum_seats(rows, m) ==
    IF rows = <<>> THEN m
    ELSE pgm_sum_seats(Tail(rows),
                       Put(m, pgm_key(Head(rows)),
                           Get(m, pgm_key(Head(rows))) + Head(rows).SEAT))

pgm_seat_map(seats_df) == pgm_sum_seats(CleanSeats(seats_df), EmptyMap)

\* seat_groups[base_key]: the categories of the seat rows of a base seat (empty:
\* base_key is not in seat_groups).
seat_groups(rows, base_key) ==
    {rows[i].category :
        i \in {j \in 1..Len(rows) :
                  <<rows[j].grp, rows[j].typ, rows[j].course, rows[j].college>>
                      = base_key}}

RECURSIVE pgm_add_specials(_, _, _, _, _)
\* "for sc in special_order": the special categories appended to priority.
pgm_add_specials(order, priority, available_cats, flag, c) ==
    IF order = <<>> THEN priority
    ELSE pgm_add_specials(
             Tail(order),
             IF /\ Head(order) \in available_cats
                /\ Head(order) \notin Range(priority)
                /\ eligible_category(Head(order), c.Category)
                /\ passes_special_rules(Head(order), flag, c)
             THEN Append(priority, Head(order))
             ELSE priority,
             available_cats, flag, c)

\* Build priority order.
pgm_priority(available_cats, flag, c) ==
    LET p1 == IF c.Category \notin {NA, NULL, Blank} /\ c.Category \in available_cats
              THEN <<c.Category>> ELSE <<>>
        p2 == p1 \o (IF HQ \in available_cats /\ c.HQ_Rank > 0 THEN <<HQ>> ELSE <<>>)
                 \o (IF MQ \in available_cats /\ c.MQ_Rank > 0 THEN <<MQ>> ELSE <<>>)
                 \o (IF IQ \in available_cats /\ c.IQ_Rank > 0 THEN <<IQ>> ELSE <<>>)
        p3 == pgm_add_specials(<<PD, CD, AC, MM, NR, NC>>, p2, available_cats, flag, c)
    IN  IF /\ SM \in available_cats /\ SM \notin Range(p3)
           /\ eligible_category(SM, c.Category) /\ passes_special_rules(SM, flag, c)
        THEN Append(p3, SM)
        ELSE p3

RECURSIVE pgm_chosen_cat(_, _, _, _, _)
\* "for sc in priority": the first category with a seat left that the candidate
\* may take, as a list of one element (empty: none).
pgm_chosen_cat(priority, m, dec, flag, c) ==
    IF priority = <<>> THEN <<>>
    ELSE IF /\ Get(m, <<<<"P", "G">> \o dec.prog, dec.typ, dec.course, dec.college,
                        Head(priority)>>) > 0
            /\ eligible_category(Head(priority), c.Category)
            /\ passes_special_rules(Head(priority), flag, c)
         THEN <<Head(priority)>>
         ELSE pgm_chosen_cat(Tail(priority), m, dec, flag, c)

RECURSIVE pgm_first_hit(_, _, _, _)
\* The first option that decodes, names a known base seat and yields a chosen
\* category: <<option row, chosen_cat>>.
pgm_first_hit(myopts, m, rows, c) ==
    IF myopts = <<>> THEN None
    ELSE LET dec == pgm_decode_opt(Head(myopts).Optn)
             avail == IF dec = None THEN {}
                      ELSE seat_groups(rows, <<<<"P", "G">> \o dec.prog, dec.typ,
                                               dec.course, dec.college>>)
             cat == IF avail = {} THEN <<>>
                    ELSE pgm_chosen_cat(pgm_priority(avail, Upper(dec.flag), c), m, dec,
                                        Upper(dec.flag), c)
         IN  IF cat # <<>> THEN <<Head(myopts), cat[1]>>
             ELSE pgm_first_hit(Tail(myopts), m, rows, c)

pgm_row(c, op, dec, chosen_cat) ==
    [RollNo |-> c.RollNo, OPNO |-> op.OPNO,
     AllotCode |-> pgm_make_allot_code(dec.prog, dec.typ, dec.course, dec.college,
                                       chosen_cat),
     College |-> dec.college, Course |-> dec.course, SeatCategory |-> chosen_cat]

pgm_fixed == UNCHANGED <<codec, rerun, engine, phase, cand, opts, seats, prev_allot, cand_sorted,
                         seat_cap, allotted, conversion_log, prefs, assignments,
                         next_prop_index, free_candidates, roll, last_prop>>

\* RUN ALLOTMENT, one turn of "for c in cand.itertuples(index=False)".
PgmStep ==
    /\ engine = "pgm" /\ pc = "allot" /\ idx < Len(cand_sorted)
    /\ LET c == pgm_clean_cand(cand[cand_sorted[idx + 1]])
           hit == pgm_first_hit(pgm_opts_by_roll(opts[c.RollNo]), seat_map,
                                seats, c)
       IN  IF hit = None
           THEN UNCHANGED <<seat_map, allotments>>
           ELSE LET dec == pgm_decode_opt(hit[1].Optn)
                    chosen_key == <<<<"P", "G">> \o dec.prog, dec.typ, dec.course,
                                    dec.college, hit[2]>>
                IN  /\ seat_map' = [seat_map EXCEPT ![chosen_key] = @ - 1]
                    /\ allotments' = Append(allotments, pgm_row(c, hit[1], dec, hit[2]))
    /\ idx' = idx + 1
    /\ UNCHANGED pc
    /\ pgm_fixed

\* ALLOTMENT RESULT: result is made of allotments.
PgmResult ==
    /\ engine = "pgm" /\ pc = "allot" /\ idx = Len(cand_sorted)
    /\ pc' = "done"
    /\ UNCHANGED <<idx, seat_map, allotments>>
    /\ pgm_fixed

\* The uploads the model draws from.
PgmRolls == {1, 2}

PgA == <<"M", "G", "M", "D", "K", "K", "M", "M">>
PgAR == <<"M", "G", "M", "D", "K", "K", "M", "R">>
PgB == <<"M", "G", "M", "D", "T", "V", "M", "Y">>
PgALower == <<"m", "g", "m", "d", "k", "k", "m", "m", " ">>
PgNoSeat == <<"M", "G", "M", "D", "E", "K", "M", "M">>

PgmCandRow(r, k, st, cat, hq, nri, mino, sp3) ==
    [RollNo |-> r, PRank |-> k, HQ_Rank |-> hq, MQ_Rank |-> 0, IQ_Rank |-> 0,
     Category |-> cat, NRI |-> nri, Minority |-> mino, Special3 |-> sp3,
     Status |-> st]

\* Candidate 1 is of category SC and may have withdrawn, have a HQ rank, be a
\* PD candidate or belong to a minority; candidate 2 has no category or carries
\* "hq" in the Category column, may have no rank and may be an NRI candidate.
PgmCandRows(r, k) ==
    IF r = 1
    THEN {PgmCandRow(r, 2, NaN, SC, 0, NaN, NaN, NaN),
          PgmCandRow(r, 2, <<"s">>, SC, 0, NaN, NaN, NaN),
          PgmCandRow(r, 2, NaN, SC, 1, NaN, NaN, NaN),
          PgmCandRow(r, 2, NaN, SC, 0, NaN, NaN, <<"p", "d">>),
          PgmCandRow(r, 2, NaN, SC, 0, NaN, <<"a", "c">>, NaN),
          PgmCandRow(r, 2, NaN, SC, 0, NaN, <<"m", "m">>, NaN)}
    ELSE {PgmCandRow(r, k, NaN, <<"n", "a">>, 0, NaN, NaN, NaN),
          PgmCandRow(r, k, NaN, <<"n", "a">>, 0, <<"n", "r">>, NaN, NaN),
          PgmCandRow(r, k, NaN, <<"n", "a">>, 0, <<"n", "r", "n", "c">>, NaN, NaN),
          PgmCandRow(r, k, NaN, <<"h", "q">>, 0, NaN, NaN, NaN)}

PgmOptLists(r) ==
    IF r = 1
    THEN <<<<OptRow(r, 1, PgA), OptRow(r, 2, PgB)>>,
           <<OptRow(r, 1, PgB), OptRow(r, 2, PgA)>>>>
    ELSE <<<<OptRow(r, 2, PgAR), OptRow(r, 1, PgALower)>>,
           <<OptRow(r, 1, OptA),
             [OptRow(r, 2, PgAR) EXCEPT !.Delflg = Y],
             OptRow(r, 3, PgNoSeat),
             OptRow(r, 4, PgB)>>>>

\* Seat matrices: the first base seat has SC, HQ, NR, PD, NC and MM seats, the
\* second one open seats, a CD seat and an AC seat.
PgmSeatMatrices ==
    {<<SeatRow(<<"P", "G", "M">>, <<"G">>, <<"K", "K", "M">>, <<"M", "D">>, SC, a),
       SeatRow(<<"P", "G", "M">>, <<"G">>, <<"K", "K", "M">>, <<"M", "D">>, HQ, b),
       SeatRow(<<"P", "G", "M">>, <<"G">>, <<"K", "K", "M">>, <<"M", "D">>, NR, c),
       SeatRow(<<"P", "G", "M">>, <<"G">>, <<"K", "K", "M">>, <<"M", "D">>, PD, 1),
       SeatRow(<<"P", "G", "M">>, <<"G">>, <<"K", "K", "M">>, <<"M", "D">>, NC, 1),
       SeatRow(<<"P", "G", "M">>, <<"G">>, <<"K", "K", "M">>, <<"M", "D">>, MM, 1),
       SeatRow(<<"p", "g", "m">>, <<"G">>, <<"T", "V", "M">>, <<"M", "D">>,
               <<"s", "m", " ">>, d),
       SeatRow(<<"P", "G", "M">>, <<"G">>, <<"T", "V", "M">>, <<"M", "D">>, CD, 1),
       SeatRow(<<"P", "G", "M">>, <<"G">>, <<"T", "V", "M">>, <<"M", "D">>, AC, 1)>>
        : a \in 0..MaxSeat, b \in 0..1, c \in 0..1, d \in 0..1}

InitPgm ==
    /\ codec = None /\ rerun = None
    /\ engine = "pgm" /\ pc = "allot" /\ phase = 0
    /\ \E k \in 0..MaxRank : \E c1 \in PgmCandRows(1, k), c2 \in PgmCandRows(2, k) :
           cand = [r \in PgmRolls |-> IF r = 1 THEN c1 ELSE c2]
    /\ \E f \in [PgmRolls -> 1..2] :
           opts = [r \in PgmRolls |-> PgmOptLists(r)[f[r]]]
    /\ seats \in {CleanSeats(m) : m \in PgmSeatMatrices}
    /\ prev_allot = <<>>
    /\ cand_sorted \in pgm_cand_sorted(cand)
    /\ idx = 0
    /\ seat_map = pgm_seat_map(seats)
    /\ seat_cap = EmptyMap
    /\ allotments = <<>> /\ allotted = {} /\ conversion_log = <<>>
    /\ no_ble_state

NextPgm == PgmStep \/ PgmResult

SpecPgm == InitPgm /\ [][NextPgm]_vars

(***************************************************************************)
(* Any of the four scripts.                                                *)
(***************************************************************************)
Init == InitBle \/ InitDnm \/ InitLlm \/ InitPgm

Next == NextBle \/ NextDnm \/ NextLlm \/ NextPgm

Spec == Init /\ [][Next]_vars

(***************************************************************************)
(* The allot-code codecs: make_allot_code followed by decode_opt of the     *)
(* same script, on a selector and a seat category.                         *)
(***************************************************************************)
CodecModules == {"ble", "llm", "pgm"}

CodecGroups == {<<"B">>, <<"M">>}
CodecTypes == {<<"G">>, <<"S">>}
CodecCourses == {<<"V", "L">>, <<"M", "D">>}
CodecColleges == {<<"K", "K", "M">>, <<"T", "V", "M">>}
CodecCategories == {SM, SC, <<"E">>, <<"E", "W", "S">>}

\* make_allot_code of the script named by m.
module_make_allot_code(m, grp, typ, course, college, category) ==
    CASE m = "ble" -> ble_make_allot_code(grp, typ, course, college, category)
      [] m = "llm" -> llm_make_allot_code(grp, typ, course, college, category)
      [] OTHER -> pgm_make_allot_code(grp, typ, course, college, category)

\* decode_opt of the script named by m.
module_decode_opt(m, code) ==
    CASE m = "ble" -> ble_decode_opt(code)
      [] m = "dnm" -> dnm_decode_opt(code)
      [] m = "llm" -> llm_decode_opt(code)
      [] OTHER -> pgm_decode_opt(code)

codec_fixed == UNCHANGED <<rerun, engine, phase, cand, opts, seats, prev_allot, cand_sorted,
                           idx, seat_map, seat_cap, allotments, allotted,
                           conversion_log, prefs, assignments, next_prop_index,
                           free_candidates, roll, last_prop>>

\* code = make_allot_code(grp, typ, course, college, category)
CodecEncode ==
    /\ engine = "codec" /\ pc = "encode"
    /\ codec' = [codec EXCEPT !.code =
                     module_make_allot_code(codec.module, codec.grp, codec.typ,
                                            codec.course, codec.college,
                                            codec.category)]
    /\ pc' = "decode"
    /\ codec_fixed

\* dec = decode_opt(code)
CodecDecode ==
    /\ engine = "codec" /\ pc = "decode"
    /\ codec' = [codec EXCEPT !.dec = module_decode_opt(codec.module, codec.code)]
    /\ pc' = "done"
    /\ codec_fixed

InitCodec ==
    /\ engine = "codec" /\ pc = "encode" /\ phase = 0 /\ rerun = None
    /\ \E m \in CodecModules, g \in CodecGroups, t \in CodecTypes,
          c \in CodecCourses, col \in CodecColleges, cat \in CodecCategories :
           codec = [module |-> m, grp |-> g, typ |-> t, course |-> c,
                    college |-> col, category |-> cat, code |-> <<>>, dec |-> None]
    /\ cand = <<>> /\ opts = <<>> /\ seats = <<>> /\ prev_allot = <<>>
    /\ cand_sorted = <<>> /\ idx = 0
    /\ seat_map = EmptyMap /\ seat_cap = EmptyMap
    /\ allotments = <<>> /\ allotted = {} /\ conversion_log = <<>>
    /\ no_ble_state

NextCodec == CodecEncode \/ CodecDecode

SpecCodec == InitCodec /\ [][NextCodec]_vars

(***************************************************************************)
(* decode_opt of each script on an option code as it is uploaded: codes of *)
(* 0 to 10 characters, in upper or lower case, with blanks around them.    *)
(***************************************************************************)
DecodeModules == {"ble", "dnm", "llm", "pgm"}

MaxCode == 10     \* an uploaded option code has at most MaxCode letters

\* The letters the codes are cut from (more than MaxCode of them).
CodeLetters == <<"m", "g", "m", "d", "k", "k", "m", "y", "n", "a", "n", "a">>

DecodeCodes ==
    UNION {{SubSeq(CodeLetters, 1, n),
            Upper(SubSeq(CodeLetters, 1, n)),
            SubSeq(CodeLetters, 1, n) \o <<" ">>,
            <<" ">> \o Upper(SubSeq(CodeLetters, 1, n))} : n \in 0..MaxCode}

\* dec = decode_opt(opt)
DecodeOpt ==
    /\ engine = "decode" /\ pc = "decode"
    /\ codec' = [codec EXCEPT !.dec = module_decode_opt(codec.module, codec.code)]
    /\ pc' = "done"
    /\ codec_fixed

InitDecode ==
    /\ engine = "decode" /\ pc = "decode" /\ phase = 0 /\ rerun = None
    /\ \E m \in DecodeModules, code \in DecodeCodes :
           codec = [module |-> m, code |-> code, dec |-> None]
    /\ cand = <<>> /\ opts = <<>> /\ seats = <<>> /\ prev_allot = <<>>
    /\ cand_sorted = <<>> /\ idx = 0
    /\ seat_map = EmptyMap /\ seat_cap = EmptyMap
    /\ allotments = <<>> /\ allotted = {} /\ conversion_log = <<>>
    /\ no_ble_state

NextDecode == DecodeOpt

SpecDecode == InitDecode /\ [][NextDecode]_vars

(***************************************************************************)
(* Claims                                                                  *)
(***************************************************************************)
\* Number of times r occurs in the list q.
Count(q, r) == Cardinality({i \in 1..Len(q) : q[i] = r})

\* Number of occupant-list entries that hold candidate r.
ble_seats_held(r) ==
    LET keys == KeysInOrder(CleanSeats(seats), <<>>)
        RECURSIVE total(_)
        total(i) == IF i > Len(keys) THEN 0
                    ELSE Count(assignments[keys[i]], r) + total(i + 1)
    IN  total(1)

\* The highest rank number (the worst rank) among the occupants q.
ble_max_rank(q) == CHOOSE m \in {ble_rank(q[i]) : i \in 1..Len(q)} :
                       \A i \in 1..Len(q) : ble_rank(q[i]) <= m

\* C2: in stable_allocation, in every state and for every seat key k, the number
\* of candidates held in assignments[k] is at most seat_cap[k].
C2_NeverOverfilled ==
    engine = "ble" =>
        \A k \in DOMAIN assignments : Len(assignments[k]) <= seat_cap[k]

\* A proposal reached a seat of capacity 2 that was already full.
C2_Witness ==
    /\ engine = "ble" /\ last_prop # None
    /\ seat_cap[last_prop.seat] = 2
    /\ Len(last_prop.before) = 2
    /\ Len(assignments[last_prop.seat]) = 2

\* C4: in stable_allocation, whenever candidate A is removed from a full seat in
\* favour of proposer B, rank(B) < rank(A) strictly and A is an occupant of the
\* worst rank among the occupants at that moment; a proposer whose rank is equal
\* to or worse than the worst occupant never evicts anyone.
C4_EvictionStrict ==
    (engine = "ble" /\ last_prop # None) =>
        LET gone == {a \in Range(last_prop.before) : a \notin Range(last_prop.after)}
        IN  /\ \A a \in gone :
                   /\ gone = {a}
                   /\ Len(last_prop.before) = seat_cap[last_prop.seat]
                   /\ ble_rank(last_prop.roll) < ble_rank(a)
                   /\ ble_rank(a) = ble_max_rank(last_prop.before)
                   /\ last_prop.roll \in Range(last_prop.after)
            /\ (last_prop.before # <<>> /\
                 ble_rank(last_prop.roll) >= ble_max_rank(last_prop.before))
                    => gone = {}

\* An occupant was evicted from a seat that held two candidates of different ranks.
C4_Witness ==
    /\ engine = "ble" /\ last_prop # None
    /\ Len(last_prop.before) = 2
    /\ ble_rank(last_prop.before[1]) # ble_rank(last_prop.before[2])
    /\ \E a \in Range(last_prop.before) : a \notin Range(last_prop.after)

\* Position of candidate c's seat in prefs[c] (0: c holds no seat).
ble_held_index(c) ==
    IF \E i \in 1..Len(prefs[c]) : c \in Range(assignments[prefs[c][i]])
    THEN CHOOSE i \in 1..Len(prefs[c]) : c \in Range(assignments[prefs[c][i]])
    ELSE 0

\* Candidate c and seat s block the matching.
ble_blocking(c, i) ==
    LET s == prefs[c][i]
    IN  /\ ble_held_index(c) = 0 \/ i < ble_held_index(c)
        /\ \/ Len(assignments[s]) < seat_cap[s]
           \/ \E o \in Range(assignments[s]) : ble_rank(o) > ble_rank(c)

\* C5: the matching returned by stable_allocation is stable: at termination no
\* candidate c and seat s of prefs[c] exist such that c is unmatched or prefers s
\* to the seat held, and s has a free slot or an occupant of strictly worse rank.
C5_Stable ==
    (engine = "ble" /\ pc = "done") =>
        \A c \in DOMAIN prefs : \A i \in 1..Len(prefs[c]) : ~ble_blocking(c, i)

\* The run ended after a worse-ranked candidate, seated first, lost a seat of
\* capacity 1 to a better-ranked one, who holds it at the end.
C5_Witness ==
    /\ engine = "ble" /\ pc = "done"
    /\ \E k \in DOMAIN assignments :
           /\ seat_cap[k] = 1 /\ Len(assignments[k]) = 1
           /\ \E c \in DOMAIN prefs :
                  /\ k \in Range(prefs[c])
                  /\ ble_rank(assignments[k][1]) < ble_rank(c)
                  /\ next_prop_index[c] > CHOOSE i \in 1..Len(prefs[c]) : prefs[c][i] = k

\* Number of result rows of candidate r.
RowsOf(r) == Cardinality({i \in 1..Len(allotments) : allotments[i].RollNo = r})

\* The remaining counts of the first-fit script that runs.
ledger == IF engine = "llm" THEN seat_cap ELSE seat_map

RECURSIVE SumMap(_, _)
\* Sum of the counts of m over the keys K.
SumMap(m, K) ==
    IF K = {} THEN 0
    ELSE LET k == CHOOSE x \in K : TRUE IN m[k] + SumMap(m, K \ {k})

\* A step lowers a count only when the count is > 0 before the step.
TakenOnlyWhenPositive ==
    engine \in {"dnm", "llm", "pgm"} =>
        \A k \in DOMAIN ledger : ledger'[k] < ledger[k] => ledger[k] > 0

\* C1: in the first-fit engines (dnm_allotment, both passes of llm_allotment,
\* pg_med_allotment) the remaining count of every seat key is >= 0 in every
\* state of the run, the state after the previous-phase seeding of dnm included,
\* and a count goes down only when it is > 0 immediately before.
C1_CountsNonNegative ==
    /\ [](engine \in {"dnm", "llm", "pgm"} => \A k \in DOMAIN ledger : ledger[k] >= 0)
    /\ [][TakenOnlyWhenPositive]_vars

\* The seeding of dnm met a seat key whose count was already 0, and the loop
\* allotted a seat afterwards.
C1_Witness ==
    /\ engine = "dnm" /\ pc = "done" /\ allotments # <<>>
    /\ \E i \in 1..Len(prev_allot) :
           /\ prev_key(prev_allot[i]) \in DOMAIN seat_map
           /\ dnm_seat_map(seats)[prev_key(prev_allot[i])] = 0

\* C3: given unique RollNo values, every engine run yields at most one allotment
\* per candidate: in stable_allocation a candidate is in at most one occupant
\* list in every state, in llm_allotment a candidate allotted in Pass 1 is never
\* allotted again in the conversion pass, in dnm_allotment (and pg_med_allotment)
\* each candidate contributes at most one result row.
C3_AtMostOneAllotment ==
    /\ engine = "ble" => \A r \in DOMAIN cand : ble_seats_held(r) <= 1
    /\ \A r \in DOMAIN cand : RowsOf(r) <= 1

\* The conversion pass of llm_allotment is over, and a candidate allotted in
\* Pass 1 was passed over although a vacant seat could still be converted for
\* that candidate.
C3_Witness ==
    /\ engine = "llm" /\ pc = "done" /\ phase >= 3
    /\ \E r \in allotted :
           /\ RowsOf(r) = 1
           /\ \A i \in 1..Len(conversion_log) : conversion_log[i].RollNo # r
           /\ llm_conv_hit(llm_opts_by_roll(opts[r]), seat_cap,
                           KeysInOrder(CleanSeats(seats), <<>>),
                           llm_clean_cand(cand[r])) # None

\* OPNO of the first usable option of ops that decodes to the base seat (0: none).
dnm_opno_of(ops, base) ==
    LET hits == {i \in 1..Len(ops) :
                    /\ dnm_decode_opt(ops[i].Optn) # None
                    /\ LET dec == dnm_decode_opt(ops[i].Optn)
                       IN  <<dec[1], dec[2], dec[4], dec[3]>> = base}
    IN  IF hits = {} THEN 0
        ELSE ops[CHOOSE i \in hits : \A j \in hits : i <= j].OPNO

\* C6: in dnm_allotment a candidate who holds a current-admission seat is never
\* moved to a seat reached through an option that is not strictly preferred
\* (lower OPNO) to the option of the seat held.
C6_ProtectedOnlyUpgraded ==
    engine = "dnm" =>
        \A i \in 1..Len(allotments) :
            LET row == allotments[i]
                key == dnm_current_seat_key(cand[row.RollNo])
                ops == dnm_c_opts(opts[row.RollNo])
                base == <<row.grp, row.typ, row.College, row.Course>>
            IN  (/\ key # None
                 /\ dnm_opno_of(ops, SubSeq(key, 1, 4)) > 0
                 /\ Append(base, row.SeatCategoryAllotted) # key)
                    => dnm_opno_of(ops, base) < dnm_opno_of(ops, SubSeq(key, 1, 4))

\* C7: in dnm_allotment for PHASE2, PHASE3 and PHASE4 every candidate whose
\* join-status column of the phase just completed is "N" is absent from the pool
\* the matching loop iterates, with or without a current-admission code, and
\* receives no allotment in that phase.
C7_BlockedAbsent ==
    (engine = "dnm" /\ phase # "PHASE1") =>
        \A r \in DOMAIN cand :
            Upper(Strip(cand[r][joinstatus_col(phase)])) = N
                => r \notin Range(cand_sorted) /\ RowsOf(r) = 0

\* C8: a candidate who holds a seat from the previous phase and is not blocked
\* ends the current phase with exactly one record in the result (dnm_allotment
\* fed with the previous result, llm_allotment with a previous-allotment input).
C8_HolderKeepsRecord ==
    /\ (engine = "dnm" /\ pc = "done" /\ phase # "PHASE1") =>
           \A i \in 1..Len(prev_allot) :
               Upper(Strip(cand[prev_allot[i].RollNo][joinstatus_col(phase)])) # N
                   => RowsOf(prev_allot[i].RollNo) = 1
    /\ (engine = "llm" /\ pc = "done" /\ phase > 1) =>
           \A i \in 1..Len(prev_allot) :
               prev_allot[i].RollNo \in llm_pool(cand)
                   => RowsOf(prev_allot[i].RollNo) = 1

dnm_released == Cardinality({i \in 1..Len(allotments) :
                                dnm_current_seat_key(cand[allotments[i].RollNo]) # None})

ConversionStepSafe ==
    (engine = "llm" /\ pc = "pass2") =>
        /\ pc' # "failed"
        /\ \A k \in DOMAIN seat_cap' : seat_cap'[k] >= 0
        /\ conversion_log' = conversion_log => seat_cap' = seat_cap
        /\ conversion_log' # conversion_log =>
           LET e == conversion_log'[Len(conversion_log')]
               changed == {k \in DOMAIN seat_cap : seat_cap'[k] # seat_cap[k]}
           IN  /\ e.FromSeat # EW
               /\ e.FromSeat \in {SC, ST, PD, MU, <<"E", "Z">>, <<"B", "H">>,
                                  <<"B", "X">>, <<"K", "N">>, <<"K", "U">>,
                                  <<"V", "K">>, <<"D", "V">>}
               /\ \E k \in changed :
                      /\ changed = {k}
                      /\ k[5] = e.FromSeat
                      /\ seat_cap[k] > 0
                      /\ seat_cap'[k] = seat_cap[k] - 1

\* C10: in the conversion pass of llm_allotment every conversion takes one unit
\* from one source category whose count is > 0 at that moment, no count goes
\* below zero, the source is never EW nor a category without an entry in
\* CONVERSION_MAP, and no assertion of the pass fails.
C10_ConversionSafe == [][ConversionStepSafe]_vars

\* The conversion pass made a conversion and left a candidate without a seat
\* who named a base seat whose EW seat stayed vacant.
C10_Witness ==
    /\ engine = "llm" /\ pc = "done" /\ conversion_log # <<>>
    /\ \E r \in Range(cand_sorted) :
           /\ r \notin allotted
           /\ \E i \in 1..Len(opts[r]) :
                  /\ llm_decode_opt(opts[r][i].Optn) # None
                  /\ Get(seat_cap,
                         Append(llm_base(llm_decode_opt(opts[r][i].Optn)), EW)) > 0

\* The merit rank the running script orders its candidates by.
merit_rank(r) ==
    CASE engine = "ble" -> cand[r].BRank
      [] engine = "dnm" -> cand[r].ARank
      [] engine = "llm" -> cand[r].LRank
      [] OTHER -> cand[r].PRank

\* Candidates a and b are queued in the same pool (dnm queues the protected
\* candidates ahead of the fresh ones).
same_pool(a, b) ==
    engine = "dnm" => dnm_is_protected(cand[a]) = dnm_is_protected(cand[b])

\* a has its turn before b: better rank, or equal rank and lower RollNo.
turn_before(a, b) ==
    \/ merit_rank(a) < merit_rank(b)
    \/ merit_rank(a) = merit_rank(b) /\ a < b

\* C11: in every engine the candidates get their turn in ascending merit-rank
\* order: no candidate is taken before a candidate of the same pool with a
\* strictly better rank, and candidates of equal rank are taken in ascending
\* RollNo order.
C11_RankOrder ==
    /\ engine \in {"dnm", "llm", "pgm"} =>
           \A i, j \in 1..Len(cand_sorted) :
               (i < j /\ same_pool(cand_sorted[i], cand_sorted[j]))
                   => turn_before(cand_sorted[i], cand_sorted[j])
    /\ (engine = "ble" /\ roll # 0) =>
           \A r \in Range(free_candidates) : turn_before(roll, r)

\* Place of a seat category in the order special, community, quota, open merit.
cat_class(cat) ==
    IF cat \in {PD, CD, AC, MM, NR, NC} THEN 1
    ELSE IF cat \in {HQ, MQ, IQ} THEN 3
    ELSE IF cat \in {SM, AM} THEN 4
    ELSE 2

\* The flag of the usable option of candidate r with number n (pg_med_allotment).
pgm_flag_of(r, n) ==
    LET ops == pgm_opts_by_roll(opts[r])
        i == CHOOSE j \in 1..Len(ops) : ops[j].OPNO = n
    IN  Upper(pgm_decode_opt(ops[i].Optn).flag)

\* Candidate r qualifies for seat category cat by the rules of the script that
\* runs (n: the number of the option walked).
qualifies(r, cat, n) ==
    CASE engine = "ble" -> eligible_for_category(cat, cand[r].Category)
      [] engine = "dnm" -> category_eligible(cat, Strip(Upper(cand[r].Category)))
      [] engine = "llm" ->
            LET C == llm_clean_cand(cand[r])
            IN  IF cat = PD THEN C.Special3 = PD ELSE cat = SM \/ cat = C.Category
      [] OTHER ->
            LET c == pgm_clean_cand(cand[r])
            IN  CASE cat_class(cat) = 1 -> passes_special_rules(cat, pgm_flag_of(r, n), c)
                  [] cat = HQ -> c.HQ_Rank > 0
                  [] cat = MQ -> c.MQ_Rank > 0
                  [] cat = IQ -> c.IQ_Rank > 0
                  [] OTHER -> eligible_category(cat, c.Category)

\* A first-fit step that takes a seat takes it in a category such that every
\* earlier category of the same base seat the candidate qualifies for is used up.
CategoryOrderStep ==
    (engine \in {"dnm", "llm", "pgm"} /\ Len(allotments') > Len(allotments)) =>
        LET row == allotments'[Len(allotments')]
            taken == {k \in DOMAIN ledger : ledger'[k] < ledger[k]}
        IN  \A k \in taken : \A k2 \in DOMAIN ledger :
                (/\ SubSeq(k2, 1, 4) = SubSeq(k, 1, 4)
                 /\ cat_class(k2[5]) < cat_class(k[5])
                 /\ qualifies(row.RollNo, k2[5], IF engine = "pgm" THEN row.OPNO ELSE 0))
                    => ledger[k2] <= 0

\* The same for the matching of stable_allocation, at its end.
ble_category_order ==
    (engine = "ble" /\ pc = "done") =>
        \A i \in 1..Len(allotments) :
            LET row == allotments[i]
                k == <<row.grp, row.typ, row.College, row.Course, row.SeatCategory>>
            IN  \A k2 \in DOMAIN seat_cap :
                    (/\ SubSeq(k2, 1, 4) = SubSeq(k, 1, 4)
                     /\ cat_class(k2[5]) < cat_class(k[5])
                     /\ qualifies(row.RollNo, k2[5], 0))
                        => Len(assignments[k2]) >= seat_cap[k2]

\* C12: within one option the seat categories of the base seat are tried in the
\* order special, own community category, quota, open merit: a candidate is
\* placed in a category only if every earlier category the candidate qualifies
\* for has no remaining capacity at that base seat; an open-merit seat is taken
\* only when no reserved seat the candidate qualifies for is available there.
C12_CategoryOrder == []ble_category_order /\ [][CategoryOrderStep]_vars

\* Place of seat category cat in the order the running script tries the
\* categories of one base seat for candidate r.
engine_order(r, cat) ==
    CASE engine = "ble" -> IF cat = SM THEN 0 ELSE 1
      [] engine = "dnm" -> IF cat = AM THEN 0 ELSE IF cat = SM THEN 1 ELSE 2
      [] engine = "llm" ->
            IF cat = PD /\ llm_clean_cand(cand[r]).Special3 = PD THEN 0
            ELSE IF cat = llm_clean_cand(cand[r]).Category THEN 1
            ELSE IF cat = SM THEN 2 ELSE 3
      [] OTHER ->
            IF cat = Upper(cand[r].Category) THEN 0
            ELSE CASE cat = HQ -> 1 [] cat = MQ -> 2 [] cat = IQ -> 3
                   [] cat = PD -> 4 [] cat = CD -> 5 [] cat = AC -> 6
                   [] cat = MM -> 7 [] cat = NR -> 8 [] cat = NC -> 9
                   [] cat = SM -> 10 [] OTHER -> 11

\* Candidate r may take a seat of category cat by the tests of the running
\* script (n: the number of the option walked).
may_take(r, cat, n) ==
    CASE engine = "ble" -> eligible_for_category(cat, cand[r].Category)
      [] engine = "dnm" -> category_eligible(cat, Strip(Upper(cand[r].Category)))
      [] engine = "llm" -> engine_order(r, cat) < 3
      [] OTHER ->
            LET c == pgm_clean_cand(cand[r])
            IN  /\ engine_order(r, cat) < 11
                /\ (cat = HQ /\ cat # c.Category) => c.HQ_Rank > 0
                /\ (cat = MQ /\ cat # c.Category) => c.MQ_Rank > 0
                /\ (cat = IQ /\ cat # c.Category) => c.IQ_Rank > 0
                /\ eligible_category(cat, c.Category)
                /\ passes_special_rules(cat, pgm_flag_of(r, n), c)

\* A step of a first-fit loop (Pass 1 for llm_allotment) that takes a seat
\* takes it in the first category of the script's own order that has a seat
\* left and that the candidate may take.
EngineOrderStep ==
    (/\ engine \in {"dnm", "llm", "pgm"} /\ pc # "pass2"
     /\ Len(allotments') > Len(allotments)) =>
        LET row == allotments'[Len(allotments')]
            n == IF engine = "pgm" THEN row.OPNO ELSE 0
            taken == {k \in DOMAIN ledger : ledger'[k] < ledger[k]}
        IN  \A k \in taken :
                /\ may_take(row.RollNo, k[5], n)
                /\ \A k2 \in DOMAIN ledger :
                       (/\ SubSeq(k2, 1, 4) = SubSeq(k, 1, 4)
                        /\ engine_order(row.RollNo, k2[5]) < engine_order(row.RollNo, k[5])
                        /\ may_take(row.RollNo, k2[5], n))
                           => ledger[k2] <= 0

\* The same for the matching of stable_allocation, at its end.
ble_engine_order ==
    (engine = "ble" /\ pc = "done") =>
        \A i \in 1..Len(allotments) :
            LET row == allotments[i]
                k == <<row.grp, row.typ, row.College, row.Course, row.SeatCategory>>
            IN  /\ may_take(row.RollNo, k[5], 0)
                /\ \A k2 \in DOMAIN seat_cap :
                       (/\ SubSeq(k2, 1, 4) = SubSeq(k, 1, 4)
                        /\ engine_order(row.RollNo, k2[5]) < engine_order(row.RollNo, k[5])
                        /\ may_take(row.RollNo, k2[5], 0))
                           => Len(assignments[k2]) >= seat_cap[k2]

\* C12 (amended): within one option the seat categories of the base seat are
\* tried in an order fixed by each script: bpharm_le SM, then the own category;
\* dnm AM, SM, then the other categories; llm_allotment (Pass 1) PD, own
\* category, SM; pg_med_allotment own category, HQ, MQ, IQ, then PD, CD, AC, MM,
\* NR, NC, then SM.  A candidate is placed in a category only if every category
\* earlier in the script's order that the candidate may take has no seat left
\* at that base seat.
C12_EngineOrder == []ble_engine_order /\ [][EngineOrderStep]_vars

\* dnm_allotment ended with a candidate placed in the own community category
\* after the open seats of the same base seat, which the seat matrix has, were
\* used up.
C12_Witness ==
    /\ engine = "dnm" /\ pc = "done"
    /\ \E i \in 1..Len(allotments) :
           LET row == allotments[i]
               k2 == <<row.grp, row.typ, row.College, row.Course, SM>>
           IN  /\ row.SeatCategoryAllotted = row.CandidateCategory
               /\ k2 \in DOMAIN seat_map
               /\ dnm_seat_map(seats)[k2] > 0
               /\ seat_map[k2] = 0

\* The seat category of a result row.
row_seat_cat(row) ==
    IF engine = "dnm" THEN row.SeatCategoryAllotted ELSE row.SeatCategory

\* A community category: neither open merit, nor a quota, nor a category with
\* a rule of its own (the special categories; OE, which llm_allotment gives on
\* the Others flag).
is_community(cat) ==
    cat \notin {SM, AM, HQ, MQ, IQ, PD, CD, AC, MM, NR, NC, OE}

\* The candidate has no community category.
no_category(r) == Norm(cand[r].Category) \in {Blank, NULL, NA, NAN}

\* The script that runs lets candidate r take an open-merit seat.
sm_open_to(r) ==
    CASE engine = "ble" -> eligible_for_category(SM, cand[r].Category)
      [] engine = "dnm" -> category_eligible(SM, Strip(Upper(cand[r].Category)))
      [] engine = "llm" ->
            LET C == llm_clean_cand(cand[r])
            IN  eligible(SM, C.Category, C.Special3, C.Others)
      [] OTHER -> eligible_category(SM, pgm_clean_cand(cand[r]).Category)

\* C13: no engine allots a community-category seat to a candidate whose own
\* category differs from the seat category, a candidate whose category is
\* blank, null or "NA" is never allotted a community-category seat, and an
\* open-merit seat is open to every candidate.
C13_CommunitySeatOwnCategory ==
    /\ \A i \in 1..Len(allotments) :
           LET row == allotments[i]
           IN  is_community(row_seat_cat(row)) =>
                   /\ row_seat_cat(row) = Norm(cand[row.RollNo].Category)
                   /\ ~no_category(row.RollNo)
    /\ \A r \in DOMAIN cand : sm_open_to(r)


\* The candidate's rank for a quota category, as pg_med_allotment reads it.
quota_rank(r, cat) ==
    LET c == pgm_clean_cand(cand[r])
    IN  CASE cat = HQ -> c.HQ_Rank
          [] cat = MQ -> c.MQ_Rank
          [] OTHER -> c.IQ_Rank

\* C14: in pg_med_allotment a candidate is allotted a seat of quota category
\* HQ, MQ or IQ only if the candidate's rank for that same quota is > 0,
\* whatever the candidate's Category field holds.
C14_QuotaNeedsRank ==
    engine = "pgm" =>
        \A i \in 1..Len(allotments) :
            allotments[i].SeatCategory \in {HQ, MQ, IQ} =>
                quota_rank(allotments[i].RollNo, allotments[i].SeatCategory) > 0


\* The flag (last character) of the option through which a result row of
\* pg_med_allotment was made: the options of the candidate with the row's OPNO.
row_flags(row) ==
    {Slice(Strip(Upper(o.Optn)), 7, 8) :
        o \in {p \in Range(opts[row.RollNo]) : p.OPNO = row.OPNO}}

\* The rule of a special category, on the candidate's attributes read as
\* upper-case trimmed text.
special_rule(cat, flag, c) ==
    LET nri == Strip(Upper(c.NRI))
        mino == Strip(Upper(c.Minority))
        sp3 == Strip(Upper(c.Special3))
        ccat == Strip(Upper(c.Category))
    IN  CASE cat = NR -> flag = R /\ nri = NR
          [] cat = NC -> flag = R /\ nri = NRNC
          [] cat = AC -> flag = Y /\ mino = AC
          [] cat = MM -> flag = Y /\ mino = MM
          [] cat = PD -> sp3 = PD
          [] cat = CD -> ccat = SC /\ sp3 = PD
          [] OTHER -> TRUE

\* Every special-category row of pg_med_allotment satisfies the category's rule.
pgm_special_rules_hold ==
    engine = "pgm" =>
        \A i \in 1..Len(allotments) :
            \A flag \in row_flags(allotments[i]) :
                special_rule(allotments[i].SeatCategory, flag,
                             cand[allotments[i].RollNo])

\* Every PD row of llm_allotment belongs to a candidate with Special3 = PD.
llm_pd_rule_holds ==
    engine = "llm" =>
        \A i \in 1..Len(allotments) :
            allotments[i].SeatCategory = PD =>
                Strip(Upper(cand[allotments[i].RollNo].Special3)) = PD

\* C15: in pg_med_allotment every allotment to a special category satisfies
\* its rule (NR: flag R and NRI = NR; NC: flag R and NRI = NRNC; AC: flag Y and
\* Minority = AC; MM: flag Y and Minority = MM; PD: Special3 = PD; CD: Category
\* = SC and Special3 = PD), and in llm_allotment a PD seat is allotted only to
\* a candidate with Special3 = PD.
C15_SpecialRules == pgm_special_rules_hold /\ llm_pd_rule_holds


\* The candidate is hard-excluded: the merit rank is <= 0 or the Status column
\* reads "S".
hard_excluded(r) ==
    merit_rank(r) <= 0 \/ Upper(cand[r].Status) = S

\* C16: a hard-excluded candidate, one whose merit rank is <= 0 or whose Status
\* is "S", never receives an allotment in any engine.
C16_HardExcluded ==
    \A r \in DOMAIN cand : hard_excluded(r) => RowsOf(r) = 0


\* An option row that may be used: a positive number, marked valid, not deleted.
usable_option(o) ==
    /\ o.OPNO > 0
    /\ Strip(Upper(o.ValidOption)) = Y
    /\ Strip(Upper(o.Delflg)) # Y

\* The base seat an option row names, as the first four parts of a key of the
\* ledger of the script that runs (None: the code does not decode).
opt_base(o) ==
    CASE engine = "ble" ->
            LET dec == ble_decode_opt(o.Optn)
            IN  IF dec = None THEN None
                ELSE <<dec.grp, dec.typ, dec.college, dec.course>>
      [] engine = "dnm" ->
            LET dec == dnm_decode_opt(o.Optn)
            IN  IF dec = None THEN None ELSE <<dec[1], dec[2], dec[4], dec[3]>>
      [] engine = "llm" ->
            LET dec == llm_decode_opt(o.Optn)
            IN  IF dec = None THEN None ELSE llm_base(dec)
      [] OTHER ->
            LET dec == pgm_decode_opt(o.Optn)
            IN  IF dec = None THEN None
                ELSE <<<<"P", "G">> \o dec.prog, dec.typ, dec.course, dec.college>>

\* The option rows a result row may have been made through: those with the
\* recorded OPNO; dnm_allotment records no OPNO, there those that name the
\* base seat of the row.
row_options(row) ==
    {o \in Range(opts[row.RollNo]) :
        IF engine = "dnm"
        THEN opt_base(o) = <<row.grp, row.typ, row.College, row.Course>>
        ELSE o.OPNO = row.OPNO}

\* Every result row was made through a usable option of its candidate.
rows_through_usable_options ==
    \A i \in 1..Len(allotments) :
        \E o \in row_options(allotments[i]) : usable_option(o)

\* A step of a first-fit loop that allots a seat does so at the lowest usable
\* option: no usable option of the candidate with a lower number than the
\* usable options of the row names a base seat that has a seat left in a
\* category the candidate may take.
LowestOptionStep ==
    (/\ engine \in {"dnm", "llm", "pgm"} /\ pc # "pass2"
     /\ Len(allotments') > Len(allotments)) =>
        LET row == allotments'[Len(allotments')]
            used == {o \in row_options(row) : usable_option(o)}
        IN  used # {} =>
            \A o \in Range(opts[row.RollNo]) :
                (/\ usable_option(o) /\ opt_base(o) # None
                 /\ \A u \in used : o.OPNO < u.OPNO) =>
                    \A k \in DOMAIN ledger :
                        (SubSeq(k, 1, 4) = opt_base(o) /\ ledger[k] > 0) =>
                            ~may_take(row.RollNo, k[5], o.OPNO)

\* C17: no allotment is made through an option whose OPNO is <= 0, whose
\* ValidOption is not a usable value or whose Delflg is "Y", and the OPNO
\* recorded for an allotment is the lowest usable OPNO at which an eligible
\* seat was available at the candidate's turn.
C17_UsableOptionsInOrder ==
    []rows_through_usable_options /\ [][LowestOptionStep]_vars


\* The candidate has confirmed: the ConfirmFlag column reads "Y".
confirmed(r) == Strip(Upper(cand[r].ConfirmFlag)) = Y

\* The candidate holds a seat of the previous allotment.
holds_protected_seat(r) ==
    \E i \in 1..Len(prev_allot) : prev_allot[i].RollNo = r

\* C18: in llm_allotment for phase 2 and later, a candidate who holds no
\* protected seat and whose ConfirmFlag is not set never receives an allotment.
C18_ConfirmedOrProtected ==
    (engine = "llm" /\ phase >= 2) =>
        \A r \in DOMAIN cand :
            (~holds_protected_seat(r) /\ ~confirmed(r)) => RowsOf(r) = 0


\* The capacity of a seat key in the seat matrix (0: the matrix has no such key).
capacity(k) == Get(dnm_seat_map(seats), k)

\* The number of candidates who hold seat key k: the holders of the previous
\* phase who have no row in this run, and the rows of this run on k.
holders(k) ==
    Cardinality({i \in 1..Len(prev_allot) :
                    prev_key(prev_allot[i]) = k /\ RowsOf(prev_allot[i].RollNo) = 0})
    + Cardinality({i \in 1..Len(allotments) : prev_key(allotments[i]) = k})

\* C19: in dnm_allotment, in every state after the seeding and for every seat
\* key, the capacity of the key minus its remaining count is the number of
\* candidates who hold the key; a release never raises a remaining count above
\* the capacity and never makes a key the seat matrix does not have.
C19_LedgerMatchesHolders ==
    (engine = "dnm" /\ pc # "seed") =>
        \A k \in DOMAIN seat_map \cup DOMAIN dnm_seat_map(seats) :
            capacity(k) - Get(seat_map, k) = holders(k)


\* The group a decoded code names (decode_opt of pgm calls it prog).
decoded_group(dec) ==
    IF codec.module = "pgm" THEN dec.prog ELSE dec.grp

\* C20: for every valid selector (group, type, course, college) and every seat
\* category, decode_opt of the allot code that make_allot_code of the same
\* script produces is not null and has the selector's group, type, course and
\* college, for the codecs of bpharm_le, llm_allotment and pgm.
C20_CodecRoundTrip ==
    (engine = "codec" /\ pc = "done") =>
        /\ codec.dec # None
        /\ decoded_group(codec.dec) = codec.grp
        /\ codec.dec.typ = codec.typ
        /\ codec.dec.course = codec.course
        /\ codec.dec.college = codec.college


\* The minimum fixed width of an option code in the script named by m.
min_width(m) == IF m = "pgm" THEN 8 ELSE 7

\* The group, type, course and college of a decoded option (decode_opt of dnm
\* returns them as a tuple, that of pgm calls the group prog).
decoded_fields(m, dec) ==
    CASE m = "dnm" -> dec
      [] m = "pgm" -> <<dec.prog, dec.typ, dec.course, dec.college>>
      [] OTHER -> <<dec.grp, dec.typ, dec.course, dec.college>>

\* C21: decode_opt returns None exactly when the trimmed code is shorter than
\* the minimum fixed width of the script (7, or 8 in pgm); for every code of
\* at least that length, longer ones included, it returns group = char 0,
\* type = char 1, course = chars 2-3, college = chars 4-6 of the trimmed,
\* upper-cased code.
C21_DecodeSlices ==
    (engine = "decode" /\ pc = "done") =>
        LET opt == Strip(Upper(codec.code))
        IN  /\ (codec.dec = None) <=> (Len(opt) < min_width(codec.module))
            /\ Len(opt) >= min_width(codec.module) =>
                   /\ codec.dec # None
                   /\ decoded_fields(codec.module, codec.dec) =
                          <<SubSeq(opt, 1, 1), SubSeq(opt, 2, 2), SubSeq(opt, 3, 4),
                            SubSeq(opt, 5, 7)>>


\* The selector of the codec run, written out.
selector_text == codec.grp \o codec.typ \o codec.course \o codec.college

ble_terminated ==
    /\ engine = "ble"
    /\ pc = "done" \/ (pc = "match" /\ roll = 0 /\ free_candidates = <<>>)

\* The number of slots candidate r occupies, over all seats.
slots_of(r) == SumMap([k \in DOMAIN assignments |-> Count(assignments[k], r)],
                      DOMAIN assignments)

\* An eviction puts the evicted candidate back in the free list when the
\* candidate has seats left to propose to.
EvictRequeueStep ==
    engine = "ble" =>
        \A k \in DOMAIN assignments :
            \A w \in Range(assignments[k]) \ Range(assignments'[k]) :
                next_prop_index'[w] < Len(prefs[w]) => w \in Range(free_candidates')

\* At the return every candidate of prefs occupies exactly one slot or has
\* proposed to every seat of the preference list.
settled_at_return ==
    ble_terminated =>
        \A r \in DOMAIN prefs :
            /\ slots_of(r) <= 1
            /\ slots_of(r) = 1 \/ next_prop_index[r] = Len(prefs[r])

\* A candidate in the free list is taken from it again.
requeued_proposes_again ==
    \A r \in BleRolls :
        (engine = "ble" /\ r \in Range(free_candidates)) ~> (roll = r)

\* C23: in stable_allocation no candidate is lost by eviction: an evicted
\* candidate who still has unproposed seats is put back in the free queue and
\* proposes again, and at termination every candidate of prefs is an occupant
\* of exactly one seat or has proposed to every seat of the preference list.
C23_NoCandidateLost ==
    /\ [][EvictRequeueStep]_vars
    /\ []settled_at_return
    /\ requeued_proposes_again

\* An eviction has just put the evicted candidate back in the free list.
C23_Witness ==
    /\ engine = "ble" /\ pc = "match" /\ last_prop # None
    /\ \E w \in Range(last_prop.before) \ Range(last_prop.after) :
           /\ w \in Range(free_candidates)
           /\ next_prop_index[w] < Len(prefs[w])


\* The number of proposals made so far: every proposal adds one to the index
\* of its proposer.
total_proposals == SumMap(next_prop_index, DOMAIN next_prop_index)

\* The sum of the lengths of all preference lists.
total_prefs == SumMap([r \in DOMAIN prefs |-> Len(prefs[r])], DOMAIN prefs)

\* A proposal (a step that records one in last_prop, or changes the occupants
\* of a seat) advances the index of the proposer by one and no other index.
ProposalAdvancesStep ==
    (engine = "ble" /\ (last_prop' # last_prop \/ assignments' # assignments)) =>
        /\ roll # 0
        /\ next_prop_index'[roll] = next_prop_index[roll] + 1
        /\ \A r \in DOMAIN next_prop_index \ {roll} :
               next_prop_index'[r] = next_prop_index[r]

\* No index passes the end of its list, so the proposals made are at most the
\* sum of the lengths of the lists.
proposals_bounded ==
    engine = "ble" =>
        /\ \A r \in DOMAIN prefs : next_prop_index[r] <= Len(prefs[r])
        /\ total_proposals <= total_prefs

\* C24: stable_allocation terminates for every finite input: the free queue
\* eventually becomes empty, and the number of proposals made in a run is at
\* most the sum of the lengths of all preference lists, because each proposal
\* strictly advances the proposer's next_prop_index.
C24_Terminates ==
    /\ (engine = "ble") ~> ble_terminated
    /\ []proposals_bounded
    /\ [][ProposalAdvancesStep]_vars

\* stable_allocation has returned after a run in which a candidate proposed
\* more than once.
C24_Witness ==
    /\ ble_terminated /\ pc = "match"
    /\ \E r \in DOMAIN prefs : next_prop_index[r] >= 2


\* Candidate r lists the base seat (grp, typ, college, course) in the options.
lists_base(r, base) ==
    \E o \in Range(opts[r]) :
        LET dec == llm_decode_opt(o.Optn)
        IN  dec # None /\ <<dec.grp, dec.typ, dec.college, dec.course>> = base

\* Candidate r would take category X under the rules of Pass 1: PD for
\* Special3 = PD, the own category, or SM.
direct_demand(r, X) ==
    LET cat == Strip(Upper(cand[r].Category))
        sp3 == Strip(Upper(cand[r].Special3))
    IN  \/ X = PD /\ sp3 = PD
        \/ X # PD /\ X = cat
        \/ X = SM

\* The candidates of the pool of llm_allotment that Pass 1 left unallotted.
llm_unallotted == {r \in DOMAIN cand : Strip(Upper(cand[r].Status)) # S} \ allotted

\* A conversion takes a seat only where no unallotted candidate has direct
\* demand for it.
ConversionStep ==
    (engine = "llm" /\ Len(conversion_log') > Len(conversion_log)) =>
        \A k \in DOMAIN seat_cap :
            seat_cap'[k] < seat_cap[k] =>
                \A r \in llm_unallotted :
                    ~(lists_base(r, SubSeq(k, 1, 4)) /\ direct_demand(r, k[5]))

\* C25: in llm_allotment phase >= 3, whenever the conversion pass gives away
\* a seat of source category X at a base seat, no candidate left unallotted
\* after Pass 1 lists that base seat in the options and would have taken
\* category X there under the Pass 1 rules.
C25_NoConversionUnderDemand == [][ConversionStep]_vars

\* A conversion has been made at a base seat that a candidate who is still
\* unallotted lists in the options.
C25_Witness ==
    /\ engine = "llm" /\ phase >= 3 /\ conversion_log # <<>>
    /\ \E r \in llm_unallotted : \E k \in DOMAIN seat_cap :
           /\ k[3] = conversion_log[1].College /\ k[4] = conversion_log[1].Course
           /\ k[5] = conversion_log[1].FromSeat
           /\ lists_base(r, SubSeq(k, 1, 4))


\* The candidates of the loop order that have not had their turn yet.
not_yet_served == {cand_sorted[i] : i \in (idx + 2)..Len(cand_sorted)}

\* Candidate r lists the base seat (grp, typ, college, course) among the
\* usable options.
lists_base_usable(r, base) ==
    \E o \in Range(opts[r]) : usable_option(o) /\ opt_base(o) = base

\* A step of dnm_allotment that moves a candidate who holds a seat to another
\* seat does so only at a base seat that no candidate without a seat who is
\* still to be served lists among the usable options.
UpgradeStep ==
    (engine = "dnm" /\ Len(allotments') > Len(allotments)) =>
        LET row == allotments'[Len(allotments')]
            held == dnm_current_seat_key(cand[row.RollNo])
        IN  (held # None /\ prev_key(row) # held) =>
                \A u \in not_yet_served :
                    dnm_current_seat_key(cand[u]) = None =>
                        ~lists_base_usable(u, SubSeq(prev_key(row), 1, 4))

\* C26: in dnm_allotment a candidate who already holds a seat is moved to
\* another seat only if no candidate of the pool who holds no seat and has not
\* yet been served lists the same base seat among the usable options.
C26_UpgradeOnlyWithoutDemand == [][UpgradeStep]_vars


\* The candidate is blocked in the phase that runs: the join-status column of
\* the phase just completed reads "N".
blocked(r) ==
    /\ joinstatus_col(phase) # ""
    /\ Strip(Upper(cand[r][joinstatus_col(phase)])) = N

\* The candidate is protected: not blocked, and holding a current-admission
\* seat.
protected(r) ==
    /\ r \in DOMAIN cand
    /\ ~blocked(r)
    /\ dnm_current_seat_key(cand[r]) # None

\* The records of the previous phase on seat key k whose candidate is protected.
protected_records(k) ==
    {i \in 1..Len(prev_allot) :
        prev_key(prev_allot[i]) = k /\ protected(prev_allot[i].RollNo)}

\* C27: in dnm_allotment for a phase after the first, before the first
\* candidate is processed the ledger has been reduced by exactly one unit for
\* each previous-phase record of a protected candidate and by nothing else:
\* the former seat of a blocked candidate is not reserved.
C27_SeedReservesProtectedOnly ==
    (engine = "dnm" /\ phase # "PHASE1" /\ pc = "allot" /\ idx = 0) =>
        \A k \in DOMAIN seat_map \cup DOMAIN dnm_seat_map(seats) :
            capacity(k) - Get(seat_map, k) = Cardinality(protected_records(k))


\* The row a step appends to the results of llm_allotment.
new_row == allotments'[Len(allotments')]

\* Exactly one unit of the count (base seat of the new row, category X) is
\* taken by the step, and no other count moves.
takes_one_of(X) ==
    \E k \in DOMAIN seat_cap :
        /\ k[3] = new_row.College /\ k[4] = new_row.Course /\ k[5] = X
        /\ seat_cap[k] > 0
        /\ seat_cap' = [seat_cap EXCEPT ![k] = @ - 1]

\* X is the first entry of CONVERSION_MAP[source], in chain order, that
\* candidate r is eligible for.
first_eligible_of_chain(source, X, r) ==
    LET chain == IF source \in DOMAIN CONVERSION_MAP THEN CONVERSION_MAP[source]
                 ELSE <<>>
        ok(i) == eligible(chain[i], Strip(Upper(cand[r].Category)),
                          Strip(Upper(cand[r].Special3)),
                          Strip(Upper(cand[r].Others)))
    IN  \E i \in 1..Len(chain) :
            /\ chain[i] = X
            /\ ok(i)
            /\ \A j \in 1..(i - 1) : ~ok(j)

\* An allotment of llm_allotment is either a Pass 1 allotment, whose recorded
\* SeatCategory is the category that lost one seat, or a conversion of
\* phase >= 3 for a candidate Pass 1 left unallotted, which takes one seat of a
\* vacant source category and records the first eligible entry of its chain.
AllotmentStep ==
    (engine = "llm" /\ allotments' # allotments) =>
        /\ Len(allotments') = Len(allotments) + 1
        /\ IF conversion_log' # conversion_log
           THEN LET log == conversion_log'[Len(conversion_log')]
                IN  /\ phase >= 3 /\ pc = "pass2"
                    /\ Len(conversion_log') = Len(conversion_log) + 1
                    /\ log.RollNo = new_row.RollNo
                    /\ new_row.RollNo \notin allotted
                    /\ new_row.SeatCategory = log.ToSeat
                    /\ takes_one_of(log.FromSeat)
                    /\ first_eligible_of_chain(log.FromSeat, log.ToSeat, log.RollNo)
           ELSE /\ pc = "pass1"
                /\ takes_one_of(new_row.SeatCategory)

\* The ledger and the conversion log of llm_allotment move only with an
\* allotment, and nothing is converted before phase 3.
NoSilentConversion ==
    (engine = "llm") =>
        /\ (seat_cap' # seat_cap \/ conversion_log' # conversion_log)
               => allotments' # allotments
        /\ phase < 3 => conversion_log' = <<>>

\* C28: in llm_allotment a conversion happens only in phase >= 3 and only for
\* a candidate left unallotted by Pass 1; every other allotment records as
\* SeatCategory the category whose count was decremented; each conversion
\* takes one seat from a source category with vacancy and records the first
\* entry of CONVERSION_MAP[source], in chain order, the candidate is eligible
\* for.
C28_ConversionOnlyLateAndInChainOrder ==
    [][AllotmentStep /\ NoSilentConversion]_vars

\* A seat of category SC has been converted to ST, the head of its chain, for
\* a candidate who is also eligible for the later entry SM, after Pass 1 has
\* allotted another candidate.
C28_Witness ==
    /\ engine = "llm" /\ phase >= 3 /\ pc = "done"
    /\ Len(allotments) = 2 /\ Len(conversion_log) = 1
    /\ conversion_log[1].FromSeat = SC /\ conversion_log[1].ToSeat = ST


\* The option rows the loop of the running script walks for candidate r, in the
\* order of the walk.
walk(r) ==
    CASE engine = "ble" -> ble_clean_opts(opts[r])
      [] engine = "dnm" -> dnm_c_opts(opts[r])
      [] OTHER -> pgm_opts_by_roll(opts[r])

\* The seat matrix has a row for the base seat of option row o.
has_seat_row(o) ==
    \E i \in 1..Len(seats) :
        opt_base(o) = IF engine = "pgm"
                      THEN <<seats[i].grp, seats[i].typ, seats[i].course, seats[i].college>>
                      ELSE <<seats[i].grp, seats[i].typ, seats[i].college, seats[i].course>>

\* Option row o is to be skipped: its code is malformed, or its base seat has
\* no row in the seat matrix.
bad_option(o) == opt_base(o) = None \/ ~has_seat_row(o)

\* Option row o of candidate r has a seat left in a category the candidate may
\* take.
open_option(r, o) ==
    /\ ~bad_option(o)
    /\ \E k \in DOMAIN ledger :
           /\ SubSeq(k, 1, 4) = opt_base(o)
           /\ ledger[k] > 0
           /\ may_take(r, k[5], o.OPNO)

\* The base seat of a result row, in the order of the keys of the ledger.
row_base(row) ==
    IF engine = "pgm"
    THEN CHOOSE b \in {opt_base(o) : o \in row_options(row)} : TRUE
    ELSE <<row.grp, row.typ, row.College, row.Course>>

\* A turn of the first-fit loop for a candidate whose walk holds an option to
\* be skipped: the candidate is allotted the first option of the walk that is
\* open, the seat is taken at the base seat of that option and nowhere else,
\* and when no option is open nothing moves.
SkipStep ==
    (/\ engine \in {"dnm", "pgm"} /\ pc = "allot" /\ idx' = idx + 1
     /\ \E o \in Range(walk(cand_sorted[idx + 1])) : bad_option(o)) =>
        LET r == cand_sorted[idx + 1]
            ops == walk(r)
            open == {i \in 1..Len(ops) : open_option(r, ops[i])}
        IN  IF open = {}
            THEN allotments' = allotments /\ ledger' = ledger
            ELSE LET first == CHOOSE i \in open : \A j \in open : i <= j
                     row == allotments'[Len(allotments')]
                 IN  /\ Len(allotments') = Len(allotments) + 1
                     /\ row.RollNo = r
                     /\ row_base(row) = opt_base(ops[first])
                     /\ engine = "pgm" => row.OPNO = ops[first].OPNO
                     /\ \A k \in DOMAIN ledger :
                            ledger'[k] < ledger[k] => SubSeq(k, 1, 4) = opt_base(ops[first])
                     /\ \E k \in DOMAIN ledger : ledger'[k] < ledger[k]

\* The options to be skipped leave no entry in the preference list of
\* build_preferences and do not cut it short: the list is the one built from
\* the walk without them.
ble_prefs_skip_bad ==
    engine = "ble" =>
        \A r \in Range(cand_sorted) :
            (IF r \in DOMAIN prefs THEN prefs[r] ELSE <<>>) =
                build_pref(cand[r],
                           SelectSeq(walk(r), LAMBDA o : ~bad_option(o)),
                           seats, seat_cap)

\* After stable_allocation a candidate whose walk held an option to be skipped
\* is without a seat only when every seat of the preference list is full.
ble_seat_despite_bad ==
    (engine = "ble" /\ ble_terminated) =>
        \A r \in DOMAIN prefs :
            (/\ \E o \in Range(walk(r)) : bad_option(o)
             /\ \A k \in DOMAIN assignments : r \notin Range(assignments[k])) =>
                \A i \in 1..Len(prefs[r]) :
                    Len(assignments[prefs[r][i]]) >= seat_cap[prefs[r][i]]

\* No script stops on an option: no run fails, and a first-fit run ends only
\* after the turn of the last candidate.
never_aborts ==
    /\ engine \in {"ble", "dnm", "pgm"} => pc # "failed"
    /\ (engine \in {"dnm", "pgm"} /\ pc = "done") => idx = Len(cand_sorted)

ranks_distinct ==
    \A a, b \in DOMAIN prefs : a # b => ble_rank(a) # ble_rank(b)

\* The second call of stable_allocation has returned.
second_run_over ==
    /\ engine = "ble" /\ rerun # None
    /\ pc = "match" /\ roll = 0 /\ free_candidates = <<>>

\* C30: when all candidate ranks are distinct, the final matching of
\* stable_allocation is the same for every order in which the free candidates
\* are taken from the queue: two runs on the same prefs, seat_cap and rank
\* that differ only in the queue order end with equal occupant sets for every
\* seat.
C30_MatchingIndependentOfQueueOrder ==
    (second_run_over /\ ranks_distinct) =>
        \A k \in DOMAIN seat_cap :
            Range(assignments[k]) = Range(rerun.assignments[k])

\* Two runs with distinct ranks and different queue orders are over, a
\* candidate was evicted on the way, and the occupants of a seat were placed
\* in different orders.
C30_Witness ==
    /\ second_run_over /\ ranks_distinct
    /\ rerun.first # rerun.second
    /\ \E r \in DOMAIN prefs : next_prop_index[r] > 1
    /\ \E k \in DOMAIN seat_cap :
           /\ Len(assignments[k]) > 1
           /\ assignments[k] # rerun.assignments[k]


\* The candidate's outcome of the run: the result rows of candidate c.
outcome(c) == {i \in 1..Len(allotments) : allotments[i].RollNo = c}

\* Option row o of candidate c is one the script walks and decodes.
walked_option(c, o) ==
    /\ o \in Range(opts[c])
    /\ usable_option(o)
    /\ opt_base(o) # None

\* pg_med_allotment: candidate c strictly prefers option row o to the option
\* of the allotment (to having no seat when c is unallotted).
pgm_prefers(c, o) ==
    \A i \in outcome(c) : o.OPNO < allotments[i].OPNO

\* pg_med_allotment: the result rows that took a seat of key k.
pgm_rows_of_key(k) ==
    {i \in 1..Len(allotments) :
        /\ row_base(allotments[i]) = SubSeq(k, 1, 4)
        /\ allotments[i].SeatCategory = k[5]}

\* C31: pg_med_allotment is free of justified envy: at the end of a run there
\* is no candidate c of the pool with a usable option o, strictly preferred to
\* the option c was allotted (any usable option when c is unallotted), such
\* that a seat category at the base seat of o that c may take by the
\* eligibility and special rules either has a seat left or was allotted to a
\* candidate with a strictly worse rank than c.
C31_PgmNoJustifiedEnvy ==
    (engine = "pgm" /\ pc = "done") =>
        \A c \in Range(cand_sorted) : \A o \in Range(opts[c]) :
            (walked_option(c, o) /\ pgm_prefers(c, o)) =>
                \A k \in DOMAIN seat_map :
                    (SubSeq(k, 1, 4) = opt_base(o) /\ may_take(c, k[5], o.OPNO)) =>
                        /\ seat_map[k] <= 0
                        /\ \A i \in pgm_rows_of_key(k) :
                               cand[allotments[i].RollNo].PRank <= cand[c].PRank

\* A run is over in which a candidate has no seat at a preferred option
\* although a category of its base seat is one the candidate may take: the
\* seat went to a candidate of a better rank.
C31_Witness ==
    /\ engine = "pgm" /\ pc = "done"
    /\ \E c \in Range(cand_sorted) : \E o \in Range(opts[c]) :
           /\ walked_option(c, o) /\ pgm_prefers(c, o)
           /\ \E k \in DOMAIN seat_map :
                  /\ SubSeq(k, 1, 4) = opt_base(o) /\ may_take(c, k[5], o.OPNO)
                  /\ seat_map[k] = 0
                  /\ \E i \in pgm_rows_of_key(k) :
                         cand[allotments[i].RollNo].PRank < cand[c].PRank


\* dnm_allotment: the place in the walk of candidate c of the first option
\* that names the base seat (0: none does).
dnm_place(c, base) ==
    LET ops == dnm_c_opts(opts[c])
        hits == {i \in 1..Len(ops) : opt_base(ops[i]) = base}
    IN  IF hits = {} THEN 0 ELSE CHOOSE i \in hits : \A j \in hits : i <= j

\* dnm_allotment: the base seat candidate c ends the run with: that of the
\* row of this run, else that of the seat held from an earlier phase (None:
\* no seat).
dnm_outcome_base(c) ==
    IF outcome(c) # {}
    THEN row_base(allotments[CHOOSE i \in outcome(c) : TRUE])
    ELSE IF dnm_current_seat_key(cand[c]) # None
         THEN SubSeq(dnm_current_seat_key(cand[c]), 1, 4)
         ELSE None

\* dnm_allotment: candidate c strictly prefers the i-th option of the walk to
\* the outcome.
dnm_prefers(c, i) ==
    \/ dnm_outcome_base(c) = None
    \/ dnm_place(c, dnm_outcome_base(c)) = 0
    \/ i < dnm_place(c, dnm_outcome_base(c))

\* dnm_allotment: the result rows of this run that took a seat of key k.
dnm_rows_of_key(k) ==
    {i \in 1..Len(allotments) :
        /\ row_base(allotments[i]) = SubSeq(k, 1, 4)
        /\ allotments[i].SeatCategoryAllotted = k[5]}

\* C32: dnm_allotment is free of justified envy in a phase after the first:
\* at the end of a run there is no candidate c with a usable option o,
\* strictly preferred to the outcome of c, such that a seat category at the
\* base seat of o for which c is eligible either has a seat left (a seat
\* released by the upgrade of another candidate included) or was allotted in
\* this run to a candidate with a strictly worse rank than c.
C32_DnmNoJustifiedEnvy ==
    (engine = "dnm" /\ phase # "PHASE1" /\ pc = "done") =>
        \A c \in Range(cand_sorted) :
            LET ops == dnm_c_opts(opts[c])
            IN  \A n \in 1..Len(ops) :
                    (/\ usable_option(ops[n]) /\ opt_base(ops[n]) # None
                     /\ dnm_prefers(c, n)) =>
                        \A k \in DOMAIN seat_map :
                            (/\ SubSeq(k, 1, 4) = opt_base(ops[n])
                             /\ category_eligible(k[5], Strip(Upper(cand[c].Category)))) =>
                                /\ seat_map[k] <= 0
                                /\ \A i \in dnm_rows_of_key(k) :
                                       allotments[i].ARank <= cand[c].ARank


\* Every preference list of build_preferences holds only seat keys of the
\* seat matrix with a capacity >= 1 for which the candidate is eligible, each
\* at most once.
prefs_well_formed ==
    engine = "ble" =>
        \A r \in DOMAIN prefs :
            /\ prefs[r] # <<>>
            /\ \A i \in 1..Len(prefs[r]) :
                   /\ prefs[r][i] \in DOMAIN seat_cap
                   /\ seat_cap[prefs[r][i]] >= 1
                   /\ eligible_for_category(prefs[r][i][5], cand[r].Category)
                   /\ \A j \in 1..Len(prefs[r]) : i # j => prefs[r][i] # prefs[r][j]

\* Every read of stable_allocation is defined: seat_cap[seat_key] and
\* assignments[seat_key] exist at each proposal, and worst_candidate is only
\* called with a list that has an occupant.
reads_defined ==
    ble_proposing =>
        /\ ble_seat_key \in DOMAIN seat_cap
        /\ ble_seat_key \in DOMAIN assignments
        /\ ~ble_has_free_slot => ble_current # <<>>

\* C33: every preference list produced by build_preferences contains only
\* seat keys that have capacity >= 1, for which the candidate is eligible,
\* each at most once; consequently, when stable_allocation runs on that
\* output, worst_candidate is never evaluated on an empty occupant list and
\* seat_cap[seat_key] and assignments[seat_key] are always defined.
C33_PrefsWellFormed == prefs_well_formed /\ reads_defined

\* A candidate proposes to a full seat, so that worst_candidate is called; a
\* candidate with a preference list names twice the base seat of a key of the
\* list, and one names a base seat with a category without capacity that the
\* candidate is eligible for.
C33_Witness ==
    /\ ble_proposing /\ ~ble_has_free_slot
    /\ \E r \in DOMAIN prefs : \E k \in Range(prefs[r]) :
           \E i, j \in 1..Len(ble_clean_opts(opts[r])) :
               /\ i < j
               /\ opt_base(ble_clean_opts(opts[r])[i]) = SubSeq(k, 1, 4)
               /\ opt_base(ble_clean_opts(opts[r])[j]) = SubSeq(k, 1, 4)
    /\ \E r \in DOMAIN prefs : \E k \in DOMAIN seat_cap :
           /\ seat_cap[k] = 0
           /\ eligible_for_category(k[5], cand[r].Category)
           /\ \E o \in Range(ble_clean_opts(opts[r])) : opt_base(o) = SubSeq(k, 1, 4)

====
